---- MODULE Spec2Model ----
(***************************************************************************)
(* Weighting and backtesting engine of market_rotation                     *)
(* (src/app/services/strategy.py): RotationStrategy and                    *)
(* FixedRebalanceStrategy; and, around it, the cached price retrieval      *)
(* (src/app/services/market_data.py) and the portfolio requests            *)
(* (src/app/routes/portfolio.py).                                          *)
(*                                                                         *)
(* Numbers.  A Python / numpy float is modelled as an exact extended       *)
(* rational <<n, d>>: d > 0 is the rational n/d in lowest terms, <<0,0>>   *)
(* is NaN, <<1,0>> is +inf and <<-1,0>> is -inf.  Binary rounding error    *)
(* is therefore not modelled, with one exception: where the exact value    *)
(* handed to round() is a tie (k + 1/2), the float quotient can land on    *)
(* either side, so the outcome is taken from the variable fp_tie, which    *)
(* is fixed the first time a tie is met.                                   *)
(***************************************************************************)
EXTENDS Integers, Sequences, FiniteSets, TLC

VARIABLES
    data,               \* self.data: the price table, a sequence of rows [date, px]
    base_weights,       \* self.base_weights: ticker -> weight
    trend_adj,          \* self.trend_adj
    rel_adj,            \* self.rel_adj
    benchmark_ticker,   \* self.benchmark_ticker
    relaxed_constraint, \* self.relaxed_constraint
    has_indicators,     \* hasattr(self, 'ma_50'): calculate_indicators has run
    fp_tie,             \* how round() resolves an exact tie: "unset", "even", "down", "up"
    pct_fill,           \* pct_change forward-fills missing prices: "unset", "pad", "none"
    call,               \* the last engine call and what it returned or raised
                        \* (kept: the observer remembered it in seen)
    seen,               \* one remembered call and its result: <<>> or <<record>>
    cache,              \* the lru_cache of _fetch_historical_data: entries
                        \* [key, value], least recently used first
    used,               \* how many distinct argument tuples were requested so far
    since,              \* per watched argument tuple: whether it was requested,
                        \* and the other tuples requested since then
    portfolios,         \* the rows of the Portfolio table: [id, user_id, name, type]
    next_id,            \* the id the table gives the next inserted row
    portfolio,          \* the analysis columns of the Portfolio row that
                        \* /rotation works on: [analysis_benchmark_ticker,
                        \* analysis_benchmark_weight]
    heap,               \* the frames in memory: object -> rows (dates), <<>> if free
    threads,            \* per request thread, where it is in get_historical_data
                        \* and what its df_close refers to
    today               \* datetime.now().date()

vars == <<data, base_weights, trend_adj, rel_adj, benchmark_ticker,
          relaxed_constraint, has_indicators, fp_tie,
          pct_fill, call, seen, cache, used, since, portfolios, next_id,
          portfolio, heap, threads, today>>

\* the state of the analysis route and of the threads that fetch prices
handlers == <<portfolio, heap, threads, today>>

\* the state outside the engine: the download cache, the portfolio table
\* and the handlers
web == <<cache, used, since, portfolios, next_id, handlers>>

\* the state of one strategy object and of the calls made on it
engine == <<data, base_weights, trend_adj, rel_adj, benchmark_ticker,
            relaxed_constraint, has_indicators, fp_tie, pct_fill, seen>>

----------------------------------------------------------------------------
(* Extended rationals                                                      *)

Abs(n) == IF n < 0 THEN -n ELSE n

Sign(n) == IF n < 0 THEN -1 ELSE IF n > 0 THEN 1 ELSE 0

RECURSIVE GCD(_, _)
GCD(a, b) == IF b = 0 THEN a ELSE GCD(b, a % b)

\* the float n/d for d > 0, in lowest terms
R(n, d) == LET g == GCD(Abs(n), d) IN <<n \div g, d \div g>>

NaN == <<0, 0>>

Zero == <<0, 1>>

One == <<1, 1>>

IsNaN(x) == x = NaN

IsFinite(x) == x[2] > 0

IsInf(x) == x[2] = 0 /\ x[1] # 0

RNeg(x) == <<-x[1], x[2]>>

RAdd(x, y) ==
    IF IsNaN(x) \/ IsNaN(y) THEN NaN
    ELSE IF IsInf(x) /\ IsInf(y) THEN (IF x = y THEN x ELSE NaN)
    ELSE IF IsInf(x) THEN x
    ELSE IF IsInf(y) THEN y
    ELSE R(x[1] * y[2] + y[1] * x[2], x[2] * y[2])

RSub(x, y) == RAdd(x, RNeg(y))

RMul(x, y) ==
    IF IsNaN(x) \/ IsNaN(y) THEN NaN
    ELSE IF IsInf(x) \/ IsInf(y)
         THEN (IF x[1] = 0 \/ y[1] = 0 THEN NaN ELSE <<Sign(x[1]) * Sign(y[1]), 0>>)
    ELSE R(x[1] * y[1], x[2] * y[2])

\* float64 division as numpy performs it: x/0 is +-inf, 0/0 is nan, no exception
RDiv(x, y) ==
    IF IsNaN(x) \/ IsNaN(y) THEN NaN
    ELSE IF IsInf(x) THEN (IF IsInf(y) THEN NaN
                           ELSE <<x[1] * (IF y[1] < 0 THEN -1 ELSE 1), 0>>)
    ELSE IF IsInf(y) THEN Zero
    ELSE IF y[1] = 0 THEN <<Sign(x[1]), 0>>
    ELSE R(x[1] * y[2] * Sign(y[1]), x[2] * Abs(y[1]))

\* x > y on floats: False as soon as one side is NaN
RGt(x, y) ==
    IF IsNaN(x) \/ IsNaN(y) THEN FALSE
    ELSE IF IsInf(x) \/ IsInf(y)
         THEN (IF IsInf(x) /\ IsInf(y) THEN x[1] > y[1]
               ELSE IF IsInf(x) THEN x[1] > 0 ELSE y[1] < 0)
    ELSE x[1] * y[2] > y[1] * x[2]

RGe(x, y) == RGt(x, y) \/ (~IsNaN(x) /\ x = y)

\* the builtin max(0.0, w)
RMax0(w) == IF RGt(w, Zero) THEN w ELSE Zero

RECURSIVE RSumSeq(_)
RSumSeq(s) == IF s = <<>> THEN Zero ELSE RAdd(RSumSeq(Tail(s)), Head(s))

----------------------------------------------------------------------------
(* Tickers, dates and price tables                                         *)

\* the ticker symbols of the model, in Python string order
TickerOrder == <<"AAPL", "BRK-B", "QQQM", "SPMO", "VOO", "XLE">>

Rank(t) == CHOOSE k \in 1..Len(TickerOrder) : TickerOrder[k] = t

\* t1 < t2 as Python compares the two strings
TickerLt(t1, t2) == Rank(t1) < Rank(t2)

RECURSIVE SortedFrom(_, _)
SortedFrom(S, k) ==
    IF k > Len(TickerOrder) THEN <<>>
    ELSE IF TickerOrder[k] \in S THEN <<TickerOrder[k]>> \o SortedFrom(S, k + 1)
    ELSE SortedFrom(S, k + 1)

\* self.tickers = sorted(list(base_weights.keys()))
Tickers(bw) == SortedFrom(DOMAIN bw, 1)

\* calendar days in one calendar month of the model's calendar
DaysPerMonth == 4

\* calendar days between two consecutive trading days of a table
Stride == 2

\* the longest price table
MaxRows == 67

\* (year, month) of a date, as one number: the key of groupby([year, month])
MonthKey(d) == (d - 1) \div DaysPerMonth

YearOf(d) == MonthKey(d) \div 12

\* calendar month 1..12
MonthOf(d) == (MonthKey(d) % 12) + 1

\* a missing price (NaN) in a cell of the table; a cell >= 0 is a price
Missing == 0 - 1

\* the float in a cell
Px(cell) == IF cell < 0 THEN NaN ELSE <<cell, 1>>

\* a price series: level a before row c, level b from row c on
SeriesAt(sh, i) == IF i < sh.c THEN sh.a ELSE sh.b

\* the table with n rows, first trading day d0, one series per ticker
MkTable(n, d0, shapes) ==
    [i \in 1..n |-> [date |-> d0 + Stride * (i - 1),
                     px   |-> [t \in DOMAIN shapes |-> SeriesAt(shapes[t], i)]]]

Index(df) == {df[i].date : i \in 1..Len(df)}

\* a lookup that takes the next trading day instead (method='bfill')
PadIndexBackfill(df, date) ==
    IF \E i \in 1..Len(df) : df[i].date >= date
    THEN Len(df) + 1 - Cardinality({i \in 1..Len(df) : df[i].date >= date})
    ELSE 0

\* index.get_indexer([date], method='pad')[0], 1-based; 0 stands for -1
\* (the index is increasing, so this is the number of rows dated <= date)
PadIndex(df, date) == Cardinality({i \in 1..Len(df) : df[i].date <= date})

\* data.loc[date] as floats
PriceRow(df, i) == [t \in DOMAIN df[i].px |-> Px(df[i].px[t])]

----------------------------------------------------------------------------
(* calculate_indicators.  self.ma_50 and self.returns_3m are functions of  *)
(* self.data, which no method assigns; the model records that they exist   *)
(* (has_indicators) and evaluates the row a call reads.                    *)

MaWindow == 50

ReturnPeriods == 63

RECURSIVE WindowSum(_, _, _, _)
WindowSum(df, t, lo, hi) ==
    IF lo > hi THEN 0
    ELSE IF lo = hi THEN df[lo].px[t]
    ELSE WindowSum(df, t, lo, (lo + hi) \div 2)
         + WindowSum(df, t, ((lo + hi) \div 2) + 1, hi)

\* a moving average whose window ends one row after row i when there is one
RollingMeanAhead(df, t, i) ==
    LET hi == IF i < Len(df) THEN i + 1 ELSE i
    IN  IF hi < MaWindow THEN NaN
        ELSE IF \E j \in (hi - MaWindow + 1)..hi : df[j].px[t] < 0 THEN NaN
        ELSE R(WindowSum(df, t, hi - MaWindow + 1, hi), MaWindow)

\* df.rolling(window=50).mean() at row i: NaN with fewer than 50 observations
RollingMean(df, t, i) ==
    IF i < MaWindow THEN NaN
    ELSE IF \E j \in (i - MaWindow + 1)..i : df[j].px[t] < 0 THEN NaN
    ELSE R(WindowSum(df, t, i - MaWindow + 1, i), MaWindow)

\* the last row <= i holding a value, 0 if none (forward fill)
LastValid(df, t, i) ==
    LET S == {j \in 1..i : df[j].px[t] >= 0}
    IN  IF S = {} THEN 0 ELSE CHOOSE j \in S : \A k \in S : k <= j

Filled(df, t, i, pad) ==
    IF pad /\ df[i].px[t] < 0
    THEN (IF LastValid(df, t, i) = 0 THEN NaN ELSE Px(df[LastValid(df, t, i)].px[t]))
    ELSE Px(df[i].px[t])

\* a return measured from the first row while fewer than 63 rows precede row i
PctChangeFromFirst(df, t, i, pad) ==
    IF i <= 1 THEN NaN
    ELSE IF i <= ReturnPeriods
    THEN RSub(RDiv(Filled(df, t, i, pad), Filled(df, t, 1, pad)), One)
    ELSE RSub(RDiv(Filled(df, t, i, pad), Filled(df, t, i - ReturnPeriods, pad)), One)

\* df.pct_change(periods=63) at row i
PctChange(df, t, i, pad) ==
    IF i <= ReturnPeriods THEN NaN
    ELSE RSub(RDiv(Filled(df, t, i, pad), Filled(df, t, i - ReturnPeriods, pad)), One)

Columns(df) == IF Len(df) = 0 THEN {} ELSE DOMAIN df[1].px

HasNaN(df) == \E i \in 1..Len(df) : \E t \in Columns(df) : df[i].px[t] < 0

\* self.ma_50.loc[date] and self.returns_3m.loc[date]
MovingAverage(df, i) == [t \in Columns(df) |-> RollingMean(df, t, i)]

PeriodReturn(df, i, pad) == [t \in Columns(df) |-> PctChange(df, t, i, pad)]

----------------------------------------------------------------------------
(* get_signals                                                             *)

\* the function f as a table computed once: TLC evaluates [x \in S |-> e]
\* anew at every application until the function has been compared
Materialize(f) == IF f = f THEN f ELSE f

\* F applied to the value of e, e being evaluated once: a local variable
\* that later statements read several times
With(e, F(_)) == CHOOSE r \in {F(x) : x \in {e}} : TRUE

\* the weight grid: round(w / 0.05) * 0.05
GridSteps == 20

SumOver(f, S) == LET order == SortedFrom(S, 1)
                 IN  RSumSeq([k \in 1..Len(order) |-> f[order[k]]])

\* sum(d.values())
SumValues(f) == SumOver(f, DOMAIN f)

TrendUp(px, ma, t) == RGt(px[t], ma[t])

Outperforms(r3, t, bench) == RGt(r3[t], r3[bench])

\* a relaxed mode that gives the benchmark the relative-strength term too
RelaxedAdjustedWithRel(bw, t, px, ma, r3, bench, ta, ra) ==
    LET w1 == IF TrendUp(px, ma, t) THEN RAdd(bw[t], ta) ELSE RSub(bw[t], ta)
    IN  IF Outperforms(r3, t, bench) THEN RAdd(w1, ra) ELSE RSub(w1, ra)

\* lines 61-78: the weight of one ticker in relaxed mode, before max(0.0, .)
RelaxedAdjusted(bw, t, px, ma, r3, bench, ta, ra) ==
    LET w1 == IF TrendUp(px, ma, t) THEN RAdd(bw[t], ta) ELSE RSub(bw[t], ta)
    IN  IF t # bench
        THEN (IF Outperforms(r3, t, bench) THEN RAdd(w1, ra) ELSE RSub(w1, ra))
        ELSE w1

\* a strict mode that rewards underperformance instead of penalizing it
StrictAdjustedRelFlipped(bw, t, px, ma, r3, bench, ta, ra) ==
    LET w1 == IF TrendUp(px, ma, t) THEN RAdd(bw[t], ta) ELSE RSub(bw[t], ta)
    IN  IF Outperforms(r3, t, bench) THEN RSub(w1, ra) ELSE RAdd(w1, ra)

\* lines 100-113: the weight of one non-benchmark ticker in strict mode,
\* before max(0.0, .)
StrictAdjusted(bw, t, px, ma, r3, bench, ta, ra) ==
    LET w1 == IF TrendUp(px, ma, t) THEN RAdd(bw[t], ta) ELSE RSub(bw[t], ta)
    IN  IF Outperforms(r3, t, bench) THEN RAdd(w1, ra) ELSE RSub(w1, ra)

\* the local variable weight of every ticker the mode adjusts
Adjusted(bw, px, ma, r3, bench, ta, ra, relaxed) ==
    Materialize(
        IF relaxed
        THEN [t \in DOMAIN bw |-> RelaxedAdjusted(bw, t, px, ma, r3, bench, ta, ra)]
        ELSE [t \in DOMAIN bw \ {bench} |->
                 StrictAdjusted(bw, t, px, ma, r3, bench, ta, ra)])

\* relaxed targets that keep the clamped weights when their total is zero
RelaxedTargetsNoFallback(bw, adj) ==
    LET raw   == [t \in DOMAIN adj |-> RMax0(adj[t])]
        total == SumValues(raw)
    IN  IF RGt(total, Zero)
        THEN Materialize([t \in DOMAIN raw |-> RDiv(raw[t], total)])
        ELSE Materialize(raw)

\* lines 80-88: clamp, then normalize all weights to sum to 1.0
RelaxedTargets(bw, adj) ==
    LET raw   == [t \in DOMAIN adj |-> RMax0(adj[t])]
        total == SumValues(raw)
    IN  IF RGt(total, Zero)
        THEN Materialize([t \in DOMAIN raw |-> RDiv(raw[t], total)])
        ELSE bw

\* strict targets without the fallback to the base proportions
StrictTargetsNoFallback(bw, adj, bench) ==
    LET benchmark_weight == IF bench \in DOMAIN bw THEN bw[bench] ELSE Zero
        raw              == [t \in DOMAIN adj |-> RMax0(adj[t])]
        target_other_sum == RSub(One, benchmark_weight)
        current_other_sum == SumValues(raw)
        others ==
            IF RGt(current_other_sum, Zero)
            THEN [t \in DOMAIN raw |->
                     RMul(RDiv(raw[t], current_other_sum), target_other_sum)]
            ELSE raw
    IN  Materialize([t \in DOMAIN raw \cup {bench} |->
                        IF t = bench THEN benchmark_weight ELSE others[t]])

\* strict targets that take the size of a negative adjusted weight instead of
\* clamping it to zero
StrictTargetsAbs(bw, adj, bench) ==
    LET benchmark_weight == IF bench \in DOMAIN bw THEN bw[bench] ELSE Zero
        raw              == [t \in DOMAIN adj |->
                                IF RGt(Zero, adj[t]) THEN RNeg(adj[t]) ELSE adj[t]]
        target_other_sum == RSub(One, benchmark_weight)
        current_other_sum == SumValues(raw)
        base_other_sum   == SumOver(bw, DOMAIN raw)
        others ==
            IF RGt(current_other_sum, Zero)
            THEN [t \in DOMAIN raw |->
                     RMul(RDiv(raw[t], current_other_sum), target_other_sum)]
            ELSE IF RGt(base_other_sum, Zero)
            THEN [t \in DOMAIN raw |->
                     RMul(RDiv(bw[t], base_other_sum), target_other_sum)]
            ELSE raw
    IN  Materialize([t \in DOMAIN raw \cup {bench} |->
                        IF t = bench THEN benchmark_weight ELSE others[t]])

\* lines 92, 115-132: clamp, normalize the others to 1 - benchmark weight
StrictTargets(bw, adj, bench) ==
    LET benchmark_weight == IF bench \in DOMAIN bw THEN bw[bench] ELSE Zero
        raw              == [t \in DOMAIN adj |-> RMax0(adj[t])]
        target_other_sum == RSub(One, benchmark_weight)
        current_other_sum == SumValues(raw)
        base_other_sum   == SumOver(bw, DOMAIN raw)
        others ==
            IF RGt(current_other_sum, Zero)
            THEN [t \in DOMAIN raw |->
                     RMul(RDiv(raw[t], current_other_sum), target_other_sum)]
            ELSE IF RGt(base_other_sum, Zero)
            THEN [t \in DOMAIN raw |->
                     RMul(RDiv(bw[t], base_other_sum), target_other_sum)]
            ELSE raw
    IN  Materialize([t \in DOMAIN raw \cup {bench} |->
                        IF t = bench THEN benchmark_weight ELSE others[t]])

\* x is exactly halfway between two integers
IsTie(x) == IsFinite(x) /\ 2 * (x[1] % x[2]) = x[2]

\* the builtin round(x) of a finite float; tie says how a value whose exact
\* quotient is k + 1/2 comes out of the float division
RoundInt(x, tie) ==
    LET q == x[1] \div x[2]
        r == x[1] % x[2]
    IN  IF 2 * r < x[2] THEN q
        ELSE IF 2 * r > x[2] THEN q + 1
        ELSE IF tie = "down" THEN q
        ELSE IF tie = "up" THEN q + 1
        ELSE IF q % 2 = 0 THEN q ELSE q + 1

\* lines 137 and 141: round(round(w / 0.05) * 0.05, 2)
RoundToGrid(w, tie) == R(RoundInt(RMul(w, <<GridSteps, 1>>), tie), GridSteps)

HasTie(tw) == \E t \in DOMAIN tw : IsTie(RMul(tw[t], <<GridSteps, 1>>))

\* candidates that do not set the benchmark aside in strict mode
CandidatesAll(fw, bench, relaxed) == DOMAIN fw

\* lines 149-152: the tickers the rounding difference may be added to
Candidates(fw, bench, relaxed) ==
    IF ~relaxed /\ bench \in DOMAIN fw /\ Cardinality(DOMAIN fw) > 1
    THEN DOMAIN fw \ {bench}
    ELSE DOMAIN fw

\* a choice by weight alone that breaks ties towards the first name
MaxTickerFirstName(fw, cands) ==
    CHOOSE t \in cands : \A u \in cands :
        u = t \/ RGt(fw[t], fw[u]) \/ (fw[t] = fw[u] /\ TickerLt(t, u))

\* max(candidates, key=lambda t: (final_weights[t], t))
MaxTicker(fw, cands) ==
    CHOOSE t \in cands : \A u \in cands :
        u = t \/ RGt(fw[t], fw[u]) \/ (fw[t] = fw[u] /\ TickerLt(u, t))

\* a rounding step that leaves the difference where it is
FixSumSkipped(fw, bench, relaxed) == fw

\* lines 144-162: add the rounding difference to one ticker
FixSum(fw, bench, relaxed) ==
    LET diff  == RSub(One, SumValues(fw))
        cands == Candidates(fw, bench, relaxed)
    IN  IF diff = Zero THEN fw
        ELSE IF cands # {}
        THEN [fw EXCEPT ![MaxTicker(fw, cands)] = RAdd(@, diff)]
        ELSE IF bench \in DOMAIN fw THEN [fw EXCEPT ![bench] = RAdd(@, diff)]
        ELSE fw

\* lines 135-141: final_weights, every weight rounded on its own
Rounded(tw, tie) == Materialize([t \in DOMAIN tw |-> RoundToGrid(tw[t], tie)])

\* lines 134-162: the rounding logic common to both modes
Discretize(tw, bench, relaxed, tie) == FixSum(Rounded(tw, tie), bench, relaxed)

\* lines 47-164: get_signals for the row the date resolved to
SignalsAt(df, pad, bw, bench, ta, ra, relaxed, i, tie) ==
    With(<<PriceRow(df, i), Materialize(MovingAverage(df, i)),
           Materialize(PeriodReturn(df, i, pad))>>, LAMBDA cur :
    With(Adjusted(bw, cur[1], cur[2], cur[3], bench, ta, ra, relaxed), LAMBDA adj :
    With(IF relaxed THEN RelaxedTargets(bw, adj) ELSE StrictTargets(bw, adj, bench),
         LAMBDA tw :
        [adjusted |-> adj, target |-> tw, rounded |-> Rounded(tw, tie),
         weights |-> Discretize(tw, bench, relaxed, tie),
         prices |-> cur[1], ma |-> cur[2], returns |-> cur[3]])))

\* the pre-discretization weights get_signals computes for row i
TargetsAt(df, pad, bw, bench, ta, ra, relaxed, i) ==
    SignalsAt(df, pad, bw, bench, ta, ra, relaxed, i, "even").target

TieModes == {"even", "down", "up"}

\* the outcomes of round() at a tie that this process can still show
TieChoices(tw) ==
    IF fp_tie # "unset" THEN {fp_tie}
    ELSE IF HasTie(tw) THEN TieModes
    ELSE {"unset"}

----------------------------------------------------------------------------
(* The strategy object and its calls                                       *)

NoCall == [op |-> "none"]

\* how pct_change treats missing prices, once this process has shown it
FillChoices ==
    IF pct_fill # "unset" THEN {pct_fill}
    ELSE IF HasNaN(data) THEN {"pad", "none"}
    ELSE {"unset"}

\* RotationStrategy.calculate_indicators
CalculateIndicators ==
    /\ pct_fill' \in FillChoices
    /\ has_indicators' = TRUE
    /\ call' = [op |-> "calculate_indicators"]
    /\ UNCHANGED <<web, data, base_weights, trend_adj, rel_adj, benchmark_ticker,
                   relaxed_constraint, fp_tie, seen>>

\* a get_signals that stores the weights it returns as base weights
BaseOverwritten(bw, result) == result

\* what get_signals does to the mapping held in self.base_weights: every
\* write of the call goes to a dict created by the call (lines 53, 57, 88,
\* 93, 131, 135), none to self.base_weights
BaseAfterSignals(bw, result) == bw

\* the remembered call: one call that the observer chose to keep
Remember(old, keep, rec) == IF keep THEN <<rec>> ELSE old

\* RotationStrategy.get_signals(date); keep: the observer remembers this call
GetSignals(date, keep) ==
    LET i == PadIndex(data, date) IN
    IF i = 0
    THEN \* line 44: no trading day on or before the date
         /\ call' = [op |-> "get_signals", date |-> date, row |-> 0,
                     raised |-> "none", weights |-> base_weights,
                     prices |-> <<>>, ma |-> <<>>, returns |-> <<>>, kept |-> keep]
         /\ seen' = Remember(seen, keep, [op |-> "get_signals", date |-> date,
                                              rows |-> Len(data),
                                              weights |-> base_weights])
         /\ UNCHANGED <<web, data, base_weights, trend_adj, rel_adj, benchmark_ticker,
                        relaxed_constraint, has_indicators, fp_tie, pct_fill>>
    ELSE IF ~has_indicators
    THEN \* line 48: self.ma_50 does not exist yet
         /\ call' = [op |-> "get_signals", date |-> date, row |-> i,
                     raised |-> "AttributeError"]
         /\ UNCHANGED <<web, data, base_weights, trend_adj, rel_adj, benchmark_ticker,
                        relaxed_constraint, has_indicators, fp_tie, pct_fill,
                        seen>>
    ELSE \E tie \in TieChoices(TargetsAt(data, pct_fill = "pad", base_weights,
                        benchmark_ticker, trend_adj, rel_adj, relaxed_constraint, i)) :
         \E res \in {SignalsAt(data, pct_fill = "pad", base_weights, benchmark_ticker,
                                trend_adj, rel_adj, relaxed_constraint, i, tie)} :
             /\ fp_tie' = tie
             /\ call' = [op |-> "get_signals", date |-> date, row |-> i,
                         raised |-> "none", weights |-> res.weights,
                         prices |-> res.prices, ma |-> res.ma,
                         returns |-> res.returns,
                         adjusted |-> res.adjusted, target |-> res.target,
                         rounded |-> res.rounded, kept |-> keep]
             /\ base_weights' = BaseAfterSignals(base_weights, res.weights)
             /\ seen' = Remember(seen, keep, [op |-> "get_signals", date |-> date,
                                                  rows |-> Len(data),
                                                  weights |-> res.weights])
             /\ UNCHANGED <<web, data, trend_adj, rel_adj, benchmark_ticker,
                            relaxed_constraint, has_indicators, pct_fill>>

----------------------------------------------------------------------------
(* Backtests                                                               *)

\* capital = 10000.0
Capital == 10000

\* start_idx: the 0-based position of the first allocated day
StartIdx == 63

\* a grouping of the year into spans of five months for 'semiannual'
PeriodKeyFiveMonths(freq, d) ==
    IF freq = "monthly" THEN MonthKey(d)
    ELSE IF freq = "semiannual" THEN (YearOf(d) * 3) + ((MonthOf(d) - 1) \div 5)
    ELSE IF freq = "annual" THEN YearOf(d)
    ELSE (YearOf(d) * 4) + ((MonthOf(d) - 1) \div 3)

\* the groupby key of a date under a rebalancing frequency
PeriodKey(freq, d) ==
    IF freq = "monthly" THEN MonthKey(d)
    ELSE IF freq = "semiannual" THEN (YearOf(d) * 2) + ((MonthOf(d) - 1) \div 6)
    ELSE IF freq = "annual" THEN YearOf(d)
    ELSE (YearOf(d) * 4) + ((MonthOf(d) - 1) \div 3)

\* the last row of each group that a row of another group follows
RebalanceRowsClosed(df, freq) ==
    { i \in 1..Len(df) :
         i < Len(df) /\ PeriodKey(freq, df[i + 1].date) # PeriodKey(freq, df[i].date) }

\* groupby(...).apply(lambda x: x.index[-1]): the last table row of each group
RebalanceRows(df, freq) ==
    { i \in 1..Len(df) :
         i = Len(df) \/ PeriodKey(freq, df[i + 1].date) # PeriodKey(freq, df[i].date) }

\* sum(units[t] * price[t] for t in self.tickers)
HoldingsValue(units, price) ==
    SumValues([t \in DOMAIN units |-> RMul(units[t], price[t])])

\* units[t] = alloc / price[t] for every ticker, whatever the price
Allocate(total, w, price) ==
    Materialize([t \in DOMAIN w |-> RDiv(RMul(total, w[t]), price[t])])

\* weights_df.loc[date] = w
SetRow(rows, date, w) ==
    IF \E k \in 1..Len(rows) : rows[k].date = date
    THEN [k \in 1..Len(rows) |->
             IF rows[k].date = date THEN [date |-> date, weights |-> w] ELSE rows[k]]
    ELSE Append(rows, [date |-> date, weights |-> w])

\* the strategy object a backtest runs on, as get_signals reads it
SignalsOf(o, i) ==
    SignalsAt(o.df, o.pad, o.bw, o.bench, o.ta, o.ra, o.relaxed, i, o.tie)

\* one iteration of the loop of RotationStrategy.run_backtest
RotationDay(o, rebs, i, st) ==
    With(<<PriceRow(o.df, i), i \in rebs>>, LAMBDA d :
    With(RAdd(HoldingsValue(st.units, d[1]), st.cash), LAMBDA val :
    With(IF d[2] THEN SignalsOf(o, i).weights ELSE <<>>, LAMBDA tw :
    With(IF d[2] THEN Allocate(val, tw, d[1]) ELSE st.units, LAMBDA units :
        [units |-> units,
         cash |-> st.cash,
         portfolio_history |->
             Append(st.portfolio_history, [date |-> o.df[i].date, value |-> val]),
         holdings |-> Append(st.holdings, [date |-> o.df[i].date, units |-> units,
                                          cash |-> st.cash]),
         weights_df |-> IF d[2] THEN SetRow(st.weights_df, o.df[i].date, tw)
                        ELSE st.weights_df]))))

\* the iterations lo..hi in order, the state after each half computed once
RECURSIVE RotationDays(_, _, _, _, _)
RotationDays(o, rebs, lo, hi, st) ==
    IF lo > hi THEN st
    ELSE IF lo = hi THEN RotationDay(o, rebs, lo, st)
    ELSE With(RotationDays(o, rebs, lo, (lo + hi) \div 2, st), LAMBDA half :
              RotationDays(o, rebs, ((lo + hi) \div 2) + 1, hi, half))

\* RotationStrategy.run_backtest from the initial allocation on, for a table
\* of more than StartIdx rows
RotationBacktest(o) ==
    With(SignalsOf(o, StartIdx + 1).weights, LAMBDA initial_weights :
    With([units |-> Allocate(<<Capital, 1>>, initial_weights,
                             PriceRow(o.df, StartIdx + 1)),
          cash |-> Zero,
          portfolio_history |-> <<>>,
          holdings |-> <<>>,
          weights_df |-> <<[date |-> o.df[StartIdx + 1].date,
                            weights |-> initial_weights]>>], LAMBDA st0 :
    With(RebalanceRows(o.df, "monthly"), LAMBDA rebs :
        RotationDays(o, rebs, StartIdx + 1, Len(o.df), st0))))

\* units[t] = alloc / price[t] if price[t] > 0, else 0
AllocateGuarded(total, w, price) ==
    Materialize([t \in DOMAIN w |->
        IF RGt(price[t], Zero) THEN RDiv(RMul(total, w[t]), price[t]) ELSE Zero])

\* one iteration of the loop of FixedRebalanceStrategy.run_backtest
FixedDay(df, w, rebs, i, st) ==
    With(<<PriceRow(df, i), i \in rebs>>, LAMBDA d :
    With(HoldingsValue(st.units, d[1]), LAMBDA val :
    With(IF d[2] THEN AllocateGuarded(val, w, d[1]) ELSE st.units, LAMBDA units :
        [units |-> units,
         portfolio_history |->
             Append(st.portfolio_history, [date |-> df[i].date, value |-> val]),
         holdings |-> Append(st.holdings, [date |-> df[i].date, units |-> units]),
         weights_history |->
             IF d[2]
             THEN Append(st.weights_history, [date |-> df[i].date, weights |-> w])
             ELSE st.weights_history])))

RECURSIVE FixedDays(_, _, _, _, _, _)
FixedDays(df, w, rebs, lo, hi, st) ==
    IF lo > hi THEN st
    ELSE IF lo = hi THEN FixedDay(df, w, rebs, lo, st)
    ELSE With(FixedDays(df, w, rebs, lo, (lo + hi) \div 2, st), LAMBDA half :
              FixedDays(df, w, rebs, ((lo + hi) \div 2) + 1, hi, half))

\* FixedRebalanceStrategy.run_backtest on a table that is not empty
FixedBacktest(df, w, freq) ==
    With(AllocateGuarded(<<Capital, 1>>, w, PriceRow(df, 1)), LAMBDA units0 :
    With([units |-> units0,
          portfolio_history |-> <<[date |-> df[1].date, value |-> <<Capital, 1>>]>>,
          holdings |-> <<[date |-> df[1].date, units |-> units0]>>,
          weights_history |-> <<[date |-> df[1].date, weights |-> w]>>], LAMBDA st0 :
    With(RebalanceRows(df, freq), LAMBDA rebs :
        FixedDays(df, w, rebs, 2, Len(df), st0))))

\* the strategy object as the get_signals calls of a backtest read it
Object(pad, tie) ==
    [df |-> data, pad |-> pad, bw |-> base_weights, bench |-> benchmark_ticker,
     ta |-> trend_adj, ra |-> rel_adj, relaxed |-> relaxed_constraint, tie |-> tie]

\* the rows on which run_backtest calls get_signals
SignalRows == {StartIdx + 1} \cup {i \in RebalanceRows(data, "monthly") : i > StartIdx}

\* the outcomes of round() at a tie that the calls of one backtest can show
BacktestTieChoices(pad) ==
    IF fp_tie # "unset" THEN {fp_tie}
    ELSE IF \E i \in SignalRows :
               HasTie(TargetsAt(data, pad, base_weights, benchmark_ticker,
                                trend_adj, rel_adj, relaxed_constraint, i))
    THEN TieModes
    ELSE {"unset"}

\* a run_backtest that stores the last weights it applied as base weights
BaseAfterBacktestLast(bw, weights_df) == weights_df[Len(weights_df)].weights

\* what run_backtest does to the mapping held in self.base_weights: it reads
\* the dicts get_signals returns and assigns none of their items
BaseAfterBacktest(bw, weights_df) == bw

\* RotationStrategy.run_backtest; keep: the observer remembers this call
RunBacktest(keep) ==
    \E pf \in FillChoices :
       /\ pct_fill' = pf
       /\ has_indicators' = TRUE
       /\ IF Len(data) <= StartIdx
          THEN \* portfolio_series.iloc[0] on an empty table, daily_dates[start_idx]
               \* on a table of at most start_idx rows
               /\ call' = [op |-> "run_backtest", raised |-> "IndexError"]
               /\ UNCHANGED <<base_weights, fp_tie, seen>>
          ELSE \E tie \in BacktestTieChoices(pf = "pad") :
               \E res \in {RotationBacktest(Object(pf = "pad", tie))} :
                   /\ fp_tie' = tie
                   /\ call' = [op |-> "run_backtest", raised |-> "none",
                               portfolio_series |-> res.portfolio_history,
                               weights_df |-> res.weights_df,
                               holdings |-> res.holdings, kept |-> keep]
                   /\ base_weights' = BaseAfterBacktest(base_weights, res.weights_df)
                   /\ seen' = Remember(seen, keep,
                                       [op |-> "run_backtest", rows |-> Len(data),
                                        portfolio_series |-> res.portfolio_history])
       /\ UNCHANGED <<web, data, trend_adj, rel_adj, benchmark_ticker, relaxed_constraint>>

\* the values of the frequency argument: the four named ones and another
Frequencies == {"monthly", "quarterly", "semiannual", "annual", "weekly"}

\* FixedRebalanceStrategy(self.data, base_weights, freq).run_backtest(): the
\* fixed-weight strategy built over the same table and weights
FixedRunBacktest(freq) ==
    /\ IF Len(data) = 0
       THEN call' = [op |-> "fixed_run_backtest", frequency |-> freq,
                     raised |-> "none", rebalance_dates |-> {},
                     portfolio_series |-> <<>>,
                     weights_df |-> <<>>, holdings |-> <<>>]
       ELSE \E res \in {FixedBacktest(data, base_weights, freq)} :
               call' = [op |-> "fixed_run_backtest", frequency |-> freq,
                        raised |-> "none",
                        rebalance_dates |->
                            {data[i].date : i \in RebalanceRows(data, freq)},
                        portfolio_series |-> res.portfolio_history,
                        weights_df |-> res.weights_history,
                        holdings |-> res.holdings]
    /\ UNCHANGED <<web, data, base_weights, trend_adj, rel_adj, benchmark_ticker,
                   relaxed_constraint, has_indicators, fp_tie, pct_fill, seen>>

\* what the next trading day does to the prices of the tickers
Moves == {"rally", "slump"}

NextPrice(move, t, cell) ==
    IF t = "VOO" THEN cell
    ELSE IF move = "rally" THEN cell + 2
    ELSE 1

\* the positions of the series that are the last of their calendar month
MonthEnds(ps) ==
    { k \in 1..Len(ps) :
         k = Len(ps) \/ MonthKey(ps[k + 1].date) # MonthKey(ps[k].date) }

\* GroupBy.last(): the last value of the month ending at position k that is
\* not NaN, NaN if the month has none
LastOfMonth(ps, k) ==
    LET S == { j \in 1..k : MonthKey(ps[j].date) = MonthKey(ps[k].date)
                            /\ ~IsNaN(ps[j].value) }
    IN  IF S = {} THEN NaN ELSE ps[CHOOSE j \in S : \A i \in S : i <= j].value

\* portfolio_series.resample('M').last().  Every calendar month between the
\* first and the last date holds a trading day, so no month comes out empty.
MonthlySeries(ps) ==
    With(MonthEnds(ps), LAMBDA E :
        Materialize([n \in 1..Cardinality(E) |->
            LastOfMonth(ps, CHOOSE k \in E : Cardinality({j \in E : j <= k}) = n)]))

\* the monthly series as pct_change() reads it: forward-filled first when
\* this pandas pads
PaddedMonth(ms, n, pad) ==
    LET S == { j \in 1..n : ~IsNaN(ms[j]) }
    IN  IF pad /\ IsNaN(ms[n]) /\ S # {}
        THEN ms[CHOOSE j \in S : \A i \in S : i <= j]
        ELSE ms[n]

\* monthly_series.pct_change().dropna()
MonthlyReturns(ms, pad) ==
    With(Materialize([n \in 1..Len(ms) |->
                         IF n = 1 THEN NaN
                         ELSE RSub(RDiv(PaddedMonth(ms, n, pad),
                                        PaddedMonth(ms, n - 1, pad)), One)]),
         LAMBDA pct : SelectSeq(pct, LAMBDA x : ~IsNaN(x)))

\* the builtin max on two ints
Max(a, b) == IF a >= b THEN a ELSE b

\* lines 263-271: one pass of the loop over the monthly returns
StreakStep(st, ret) ==
    IF RGt(ret, Zero)
    THEN [win_streak |-> st.win_streak + 1, lose_streak |-> 0,
          max_win_streak |-> Max(st.max_win_streak, st.win_streak + 1),
          max_lose_streak |-> st.max_lose_streak]
    ELSE IF RGt(Zero, ret)
    THEN [win_streak |-> 0, lose_streak |-> st.lose_streak + 1,
          max_win_streak |-> st.max_win_streak,
          max_lose_streak |-> Max(st.max_lose_streak, st.lose_streak + 1)]
    ELSE st

RECURSIVE Streaks(_, _, _, _)
Streaks(rets, lo, hi, st) ==
    IF lo > hi THEN st
    ELSE IF lo = hi THEN StreakStep(st, rets[lo])
    ELSE With(Streaks(rets, lo, (lo + hi) \div 2, st), LAMBDA half :
              Streaks(rets, ((lo + hi) \div 2) + 1, hi, half))

\* the largest of a non-empty set of floats none of which is NaN
RMaxOf(S) == CHOOSE x \in S : \A y \in S : RGe(x, y)

RMinOf(S) == CHOOSE x \in S : \A y \in S : RGe(y, x)

\* portfolio_series.cummax() at position k: NaN where the value is NaN,
\* the largest value so far that is not NaN elsewhere
CumMax(ps, k) ==
    IF IsNaN(ps[k].value) THEN NaN
    ELSE RMaxOf({ps[j].value : j \in {i \in 1..k : ~IsNaN(ps[i].value)}})

\* line 251 at position k
Drawdown(ps, k) ==
    With(CumMax(ps, k), LAMBDA m : RDiv(RSub(ps[k].value, m), m))

\* drawdown.min(): NaN entries are skipped
MaxDrawdown(ps) ==
    With({Drawdown(ps, k) : k \in 1..Len(ps)} \ {NaN}, LAMBDA D :
        IF D = {} THEN NaN ELSE RMinOf(D))

\* lines 246-247: (1 + total_return) ** (365 / days) - 1 is a real power; it
\* is kept as its base and exponent
Cagr(ps, total_return) ==
    LET days == ps[Len(ps)].date - ps[1].date
    IN  IF days > 0
        THEN [base |-> RAdd(One, total_return), exponent |-> R(365, days)]
        ELSE [base |-> One, exponent |-> Zero]

\* RotationStrategy.calculate_metrics(portfolio_series)
Metrics(ps, pad) ==
    IF Len(ps) = 0
    THEN [total_return |-> Zero, cagr |-> [base |-> One, exponent |-> Zero],
          max_drawdown |-> Zero, winning_streak |-> 0, losing_streak |-> 0,
          monthly_returns |-> <<>>]
    ELSE With(RSub(RDiv(ps[Len(ps)].value, ps[1].value), One), LAMBDA total_return :
         With(MonthlySeries(ps), LAMBDA monthly_series :
         With(MonthlyReturns(monthly_series, pad), LAMBDA rets :
         With(Streaks(rets, 1, Len(rets),
                      [win_streak |-> 0, lose_streak |-> 0,
                       max_win_streak |-> 0, max_lose_streak |-> 0]), LAMBDA st :
             [total_return |-> total_return,
              cagr |-> Cagr(ps, total_return),
              max_drawdown |-> MaxDrawdown(ps),
              winning_streak |-> st.max_win_streak,
              losing_streak |-> st.max_lose_streak,
              monthly_returns |-> rets]))))

\* how the pct_change of calculate_metrics treats a missing monthly value
MetricsFillChoices(ps) ==
    IF pct_fill # "unset" THEN {pct_fill}
    ELSE IF \E k \in 1..Len(ps) : IsNaN(ps[k].value) THEN {"pad", "none"}
    ELSE {"unset"}

\* the analysis routes hand the value series of the backtest they ran to
\* calculate_metrics (routes/rotation.py lines 236-264 and 457-460)
CalculateMetrics ==
    /\ call.op \in {"run_backtest", "fixed_run_backtest"}
    /\ call.raised = "none"
    /\ \E fill \in MetricsFillChoices(call.portfolio_series) :
       \E res \in {Metrics(call.portfolio_series, fill = "pad")} :
          /\ pct_fill' = fill
          /\ call' = [op |-> "calculate_metrics", raised |-> "none",
                      backtest |-> call.op,
                      portfolio_series |-> call.portfolio_series,
                      metrics |-> res]
    /\ UNCHANGED <<web, data, base_weights, trend_adj, rel_adj, benchmark_ticker,
                   relaxed_constraint, has_indicators, fp_tie, seen>>

\* the next trading day: the analysis builds a new strategy object over the
\* table with one more row
AppendRow(move) ==
    /\ 0 < Len(data)
    /\ Len(data) < MaxRows
    /\ data' = Append(data,
                 [date |-> data[Len(data)].date + Stride,
                  px   |-> [t \in Columns(data) |->
                               NextPrice(move, t, data[Len(data)].px[t])]])
    /\ has_indicators' = FALSE
    /\ call' = NoCall
    /\ UNCHANGED <<web, base_weights, trend_adj, rel_adj, benchmark_ticker,
                   relaxed_constraint, fp_tie, pct_fill, seen>>

----------------------------------------------------------------------------
(* Cached price retrieval: market_data.get_historical_data and the         *)
(* lru_cache around _fetch_historical_data.  An argument tuple is a record *)
(* [symbols, period, start_date, end_date]; symbols is the tuple of        *)
(* tickers as passed (a sequence, order included), and the date 0 stands   *)
(* for None.                                                               *)

\* lru_cache(maxsize=32)
CacheSize == 32

\* how many distinct argument tuples a process is asked for
MaxKeys == 34

SymbolTuples == << <<"VOO", "QQQ">>, <<"QQQ", "VOO">>, <<>>, <<"VOO">> >>

Periods == <<"2y", "5y", "15y">>

\* the n-th distinct argument tuple a process is asked for.  What the cache
\* does depends on which tuples are equal, not on the order in which new
\* ones turn up, so new tuples are numbered in the order they are first
\* requested.
KeyOf(n) ==
    [symbols    |-> SymbolTuples[((n - 1) % Len(SymbolTuples)) + 1],
     period     |-> Periods[(((n - 1) \div Len(SymbolTuples)) % Len(Periods)) + 1],
     start_date |-> (n - 1) \div (Len(SymbolTuples) * Len(Periods)),
     end_date   |-> 0]

\* the argument tuples that are requested again after their first request
WatchedKeys == {1, 3}

\* a lookup that never finds an entry
CacheMissAlways(c, key) == FALSE

\* the lru_cache lookup: an entry for an equal argument tuple
CacheHit(c, key) == \E k \in 1..Len(c) : c[k].key = key

\* the position of that entry
CacheIndex(c, key) == CHOOSE k \in 1..Len(c) : c[k].key = key

\* a hit makes the entry the most recently used one
Touch(c, key) ==
    LET k == CacheIndex(c, key)
    IN  Append(SubSeq(c, 1, k - 1) \o SubSeq(c, k + 1, Len(c)), c[k])

\* a cache that keeps frames only
StoreFrames(c, key, value) ==
    IF value = "None" THEN c
    ELSE Append(IF Len(c) >= CacheSize THEN Tail(c) ELSE c,
                [key |-> key, value |-> value])

\* a miss stores the result, dropping the least recently used entry of a
\* full cache
Store(c, key, value) ==
    Append(IF Len(c) >= CacheSize THEN Tail(c) ELSE c, [key |-> key, value |-> value])

\* lines 70-84: the arguments of yf.download
DownloadArgs(key) ==
    IF key.start_date # 0 THEN "start"
    ELSE IF key.period \in {"15y", "20y"} THEN "start from period"
    ELSE "period"

\* what yf.download can give _fetch_historical_data: a frame, or an empty
\* frame or an exception (both end in None).  Failures are drawn for the
\* watched tuples, whose values are read back.
Outcomes(n) == IF n \in WatchedKeys THEN {"frame", "None"} ELSE {"frame"}

\* lines 116-172: a non-empty frame whose last row is older than today is
\* copied and may get a row with the latest prices; the cached frame is
\* returned as it is otherwise
Returns(value) == IF value = "None" THEN {"None"} ELSE {"cached frame", "copy"}

\* the requests since the last request of the watched tuple p
SinceAfter(p, n) ==
    IF p = n THEN [asked |-> TRUE, others |-> {}]
    ELSE IF since[p].asked THEN [since[p] EXCEPT !.others = @ \cup {n}]
    ELSE since[p]

\* get_historical_data(symbols, period, start_date, end_date) with the n-th
\* argument tuple
GetHistoricalData(n) ==
    LET key == KeyOf(n) IN
    /\ n \in 1..MaxKeys
    /\ n <= used + 1
    /\ n \in WatchedKeys \/ n = used + 1
    /\ used' = IF n > used THEN n ELSE used
    /\ since' = [p \in WatchedKeys |-> SinceAfter(p, n)]
    /\ IF CacheHit(cache, key)
       THEN \E ret \in Returns(cache[CacheIndex(cache, key)].value) :
               /\ cache' = Touch(cache, key)
               /\ call' = [op |-> "get_historical_data", key |-> key, hit |-> TRUE,
                           download |-> "none",
                           value |-> cache[CacheIndex(cache, key)].value,
                           returned |-> ret]
       ELSE IF key.symbols = <<>>
       THEN \* line 60: nothing to fetch; the None is cached like any result
            /\ cache' = Store(cache, key, "None")
            /\ call' = [op |-> "get_historical_data", key |-> key, hit |-> FALSE,
                        download |-> "none", value |-> "None", returned |-> "None"]
       ELSE \E value \in Outcomes(n) : \E ret \in Returns(value) :
               /\ cache' = Store(cache, key, value)
               /\ call' = [op |-> "get_historical_data", key |-> key, hit |-> FALSE,
                           download |-> DownloadArgs(key), value |-> value,
                           returned |-> ret]
    /\ UNCHANGED <<engine, portfolios, next_id, handlers>>

----------------------------------------------------------------------------
(* Portfolio requests (routes/portfolio.py): create, rename, duplicate.    *)
(* The requests of the logged-in user are served one after the other; a    *)
(* handler runs from its query to its commit before the next one starts.   *)
(* A portfolio name is a record [base, copies] standing for the string     *)
(* base with "Copy of " put in front copies times.  Holdings are copied by *)
(* duplicate but play no part in the name check and are left out.          *)

\* how often "Copy of " is put in front of a name
MaxCopies == 1

\* the largest id the table hands out
MaxId == 3

\* current_user.id, and the id of another account
CurrentUser == 1

OtherUser == 2

\* new_name = f"Copy of {portfolio.name}"
CopyOf(name) == [name EXCEPT !.copies = @ + 1]

Names ==
    {[base |-> "Portfolio A", copies |-> c] : c \in 0..MaxCopies}
        \cup {[base |-> "Portfolio B", copies |-> 0]}

Types == {"RRSP", "TFSA"}

Methods == {"GET", "POST"}

\* a check that is skipped when a portfolio is excluded from it
check_exists_unless_excluded(name, type, user_id, exclude_id) ==
    /\ exclude_id = 0
    /\ \E q \in portfolios : q.name = name /\ q.type = type /\ q.user_id = user_id

\* check_portfolio_exists(name, type, user_id, exclude_id=None); 0 is None
check_portfolio_exists(name, type, user_id, exclude_id) ==
    \E q \in portfolios :
        /\ q.name = name /\ q.type = type /\ q.user_id = user_id
        /\ exclude_id # 0 => q.id # exclude_id

\* db.session.add(Portfolio(...)); db.session.commit()
Insert(name, type) ==
    /\ next_id <= MaxId
    /\ portfolios' = portfolios \cup
          {[id |-> next_id, user_id |-> CurrentUser, name |-> name, type |-> type]}
    /\ next_id' = next_id + 1

\* Portfolio.query.get_or_404(id) followed by the owner check
Lookup(id) ==
    IF ~\E q \in portfolios : q.id = id THEN "404"
    ELSE IF (CHOOSE q \in portfolios : q.id = id).user_id # CurrentUser THEN "403"
    ELSE "found"

Request(op, method, id, name, type, status) ==
    [op |-> op, method |-> method, id |-> id, name |-> name, type |-> type,
     status |-> status]

\* /portfolio/create
Create(method, name, type) ==
    /\ IF method # "POST"
       THEN /\ call' = Request("create", method, 0, name, type, "form")
            /\ UNCHANGED <<portfolios, next_id>>
       ELSE IF check_portfolio_exists(name, type, CurrentUser, 0)
       THEN /\ call' = Request("create", method, 0, name, type, "already exists")
            /\ UNCHANGED <<portfolios, next_id>>
       ELSE /\ Insert(name, type)
            /\ call' = Request("create", method, 0, name, type, "created")
    /\ UNCHANGED <<engine, cache, used, since, handlers>>

\* /portfolio/rename/<id>
Rename(method, id, new_name, new_type) ==
    /\ IF Lookup(id) # "found"
       THEN /\ call' = Request("rename", method, id, new_name, new_type, Lookup(id))
            /\ UNCHANGED portfolios
       ELSE IF method # "POST"
       THEN /\ call' = Request("rename", method, id, new_name, new_type, "form")
            /\ UNCHANGED portfolios
       ELSE IF check_portfolio_exists(new_name, new_type, CurrentUser, id)
       THEN /\ call' = Request("rename", method, id, new_name, new_type,
                               "already exists")
            /\ UNCHANGED portfolios
       ELSE /\ portfolios' =
                  {IF q.id = id THEN [q EXCEPT !.name = new_name, !.type = new_type]
                   ELSE q : q \in portfolios}
            /\ call' = Request("rename", method, id, new_name, new_type, "renamed")
    /\ UNCHANGED <<engine, cache, used, since, next_id, handlers>>

\* /portfolio/duplicate/<id> (a GET route)
Duplicate(id) ==
    /\ IF Lookup(id) # "found"
       THEN /\ call' = Request("duplicate", "GET", id, <<>>, <<>>, Lookup(id))
            /\ UNCHANGED <<portfolios, next_id>>
       ELSE \E q \in {r \in portfolios : r.id = id} :
               /\ q.name.copies < MaxCopies
               /\ IF check_portfolio_exists(CopyOf(q.name), q.type, CurrentUser, 0)
                  THEN /\ call' = Request("duplicate", "GET", id, CopyOf(q.name),
                                          q.type, "already exists")
                       /\ UNCHANGED <<portfolios, next_id>>
                  ELSE /\ Insert(CopyOf(q.name), q.type)
                       /\ call' = Request("duplicate", "GET", id, CopyOf(q.name),
                                          q.type, "duplicated")
    /\ UNCHANGED <<engine, cache, used, since, handlers>>

----------------------------------------------------------------------------
(* The analysis route (routes/rotation.py), from the holdings to the base  *)
(* weights it hands to RotationStrategy.  A request argument is a string,  *)
(* "" when absent; a database column that is None is "" (ticker) or <<>>   *)
(* (weight).  The fetch and the engine calls the route goes on with are    *)
(* the actions above.                                                      *)

\* the elements of a list
Range(seq) == {seq[k] : k \in DOMAIN seq}

\* the symbols of portfolio.holdings.all()
HoldingLists ==
    { <<"VOO">>, <<"QQQM">>, <<"QQQM", "VOO">>, <<"QQQM", "SPMO">>,
      <<"XLE", "QQQM", "VOO", "SPMO">> }

\* request.args.get('benchmark')
BenchmarkInputs == {"", "VOO", "QQQM", "AAPL"}

\* request.args.get('benchmark_weight')
WeightInputs == {"", "abc", "0", "10", "50", "100", "150", "-5"}

\* the strings float() accepts, and the numbers it makes of them
Numerals == [s \in {"0", "10", "50", "100", "150", "-5"} |->
                IF s = "0" THEN 0
                ELSE IF s = "10" THEN 10
                ELSE IF s = "50" THEN 50
                ELSE IF s = "100" THEN 100
                ELSE IF s = "150" THEN 150
                ELSE 0 - 5]

\* float(s) raises ValueError
FloatRaises(s) == s \notin DOMAIN Numerals

\* float(s) / 100.0
Percent(s) == R(Numerals[s], 100)

\* lines 28-46: the benchmark of the request, of the database, or the default
BenchmarkOf(tickers, benchmark_input, stored) ==
    LET chosen == IF benchmark_input # "" THEN benchmark_input ELSE stored
    IN  IF chosen = "" \/ chosen \notin Range(tickers)
        THEN (IF "VOO" \in Range(tickers) THEN "VOO" ELSE tickers[1])
        ELSE chosen

\* lines 115-119: every holding gets 1.0 / len(holdings)
EqualWeights(tickers) == [t \in Range(tickers) |-> R(1, Len(tickers))]

\* a redistribution that leaves the other symbols as they are
RedistributeBenchmarkOnly(bw, bench) == bw

\* lines 154-170 (test_override_logic.py lines 6-17): the other symbols are
\* rescaled to 1 - benchmark weight, or share it equally when they sum to 0
Redistribute(bw, bench) ==
    LET remaining_target  == RSub(One, bw[bench])
        other_tickers     == DOMAIN bw \ {bench}
        current_other_sum == SumOver(bw, other_tickers)
    IN  IF RGt(current_other_sum, Zero)
        THEN [t \in DOMAIN bw |->
                 IF t = bench THEN bw[t]
                 ELSE RMul(RDiv(bw[t], current_other_sum), remaining_target)]
        ELSE IF other_tickers # {}
        THEN [t \in DOMAIN bw |->
                 IF t = bench THEN bw[t]
                 ELSE RDiv(remaining_target, R(Cardinality(other_tickers), 1))]
        ELSE bw

\* lines 137-147: the override weight a request argument is accepted as,
\* <<>> when it is not
Accepts(weight_input) ==
    IF weight_input = "" \/ FloatRaises(weight_input) THEN <<>>
    ELSE IF RGe(Percent(weight_input), Zero) /\ RGe(One, Percent(weight_input))
    THEN Percent(weight_input)
    ELSE <<>>

\* lines 134-170: the override applied to the equal weights; stored is
\* portfolio.analysis_benchmark_weight before the request
Overridden(bw, bench, weight_input, stored) ==
    LET applied == IF weight_input # "" THEN Accepts(weight_input) ELSE stored
        saved   == IF Accepts(weight_input) # <<>> THEN Accepts(weight_input) ELSE stored
        set     == IF applied # <<>> THEN [bw EXCEPT ![bench] = applied] ELSE bw
    IN  [applied |-> applied,
         saved   |-> saved,
         weights |-> IF weight_input # "" \/ saved # <<>>
                     THEN Redistribute(set, bench) ELSE set]

\* GET /portfolio/<id>/rotation for a portfolio with the holdings tickers;
\* fetched: get_historical_data gave a non-empty table
Analysis(tickers, benchmark_input, weight_input, reset, fetched) ==
    LET bench  == BenchmarkOf(tickers, benchmark_input,
                              portfolio.analysis_benchmark_ticker)
        ticker == IF benchmark_input # "" THEN benchmark_input
                  ELSE portfolio.analysis_benchmark_ticker
    IN  /\ IF ~fetched
           THEN \* lines 77-79
                /\ portfolio' = [portfolio EXCEPT !.analysis_benchmark_ticker = ticker]
                /\ call' = [op |-> "analysis", status |-> "redirect"]
           ELSE IF reset
           THEN \* lines 122-132
                /\ portfolio' = [analysis_benchmark_ticker |-> ticker,
                                 analysis_benchmark_weight |-> <<>>]
                /\ call' = [op |-> "analysis", status |-> "redirect"]
           ELSE \E res \in {Overridden(EqualWeights(tickers), bench, weight_input,
                                       portfolio.analysis_benchmark_weight)} :
                /\ portfolio' = [analysis_benchmark_ticker |-> ticker,
                                 analysis_benchmark_weight |-> res.saved]
                /\ call' = [op |-> "analysis", status |-> "ok",
                            benchmark_ticker |-> bench,
                            before |-> EqualWeights(tickers),
                            override_weight |-> res.applied,
                            base_weights |-> res.weights]
        /\ UNCHANGED <<engine, cache, used, since, portfolios, next_id,
                       heap, threads, today>>

\* the calls of test_override_logic.py
TestCases ==
    << [base_weights |-> ("VOO" :> R(4, 10) @@ "SPMO" :> R(2, 10)
                            @@ "QQQ" :> R(2, 10) @@ "BRK-B" :> R(2, 10)),
        override_weight |-> R(5, 10)],
       [base_weights |-> ("VOO" :> R(4, 10) @@ "SPMO" :> R(2, 10)
                            @@ "QQQ" :> R(2, 10) @@ "BRK-B" :> R(2, 10)),
        override_weight |-> R(1, 10)],
       [base_weights |-> ("VOO" :> One @@ "SPMO" :> Zero),
        override_weight |-> R(5, 10)] >>

\* test_redistribution(base_weights, benchmark_ticker, override_weight)
TestRedistribution(bw, bench, override_weight) ==
    /\ call' = [op |-> "test_redistribution", status |-> "ok",
                benchmark_ticker |-> bench,
                before |-> bw,
                override_weight |-> override_weight,
                base_weights |-> Redistribute([bw EXCEPT ![bench] = override_weight],
                                              bench)]
    /\ UNCHANGED <<engine, web>>

----------------------------------------------------------------------------
(* get_historical_data called from several request threads at once         *)
(* (market_data.py lines 107-172).  A frame is an object of the heap; what *)
(* is modelled of it is its index, the dates of its rows.  The cache       *)
(* holds references: the number of an object, 0 for None.  A thread runs   *)
(* from the lookup to the download, to the staleness check, to the patch;  *)
(* another thread can run between any two of these steps.                  *)

\* the request threads of the server
MaxThreads == 2

Threads == 1..MaxThreads

\* the argument tuple the threads call with, the same for all
ThreadKeys == {1}

\* the last day the clock reaches
MaxDay == 2

\* objects that can be alive at once: the cached ones, one per thread, and
\* the copy a thread is making
MaxObjects == MaxThreads + Cardinality(ThreadKeys) + 1

Idle == [pc |-> "idle", key |-> 0, df |-> 0, hit |-> FALSE]

\* the objects the cache or a thread refers to
Referenced(c, th) ==
    {c[k].value : k \in 1..Len(c)} \cup {th[t].df : t \in DOMAIN th}

\* reference counting: an object nothing refers to is freed
Collect(h, c, th) ==
    [o \in DOMAIN h |-> IF o \in Referenced(c, th) THEN h[o] ELSE <<>>]

\* a free place of the heap
FreeObject(h) ==
    CHOOSE o \in DOMAIN h : h[o] = <<>> /\ \A q \in DOMAIN h : h[q] = <<>> => o <= q

\* a patch that works on the frame it was given
NotCopied(h, df) == [heap |-> h, df |-> df]

\* line 121: df_close = df_close.copy()
Copied(h, df) ==
    [heap |-> [h EXCEPT ![FreeObject(h)] = h[df]], df |-> FreeObject(h)]

\* what yf.download can give on the day today: nothing (an empty frame or
\* an exception, both None), a frame that ends the day before, a frame that
\* ends today
Downloads == {<<>>, <<today - 1>>, <<today>>}

\* the dates get_yahoo_price can report: 0 for none, or a day up to today
Latest == 0..today

\* lines 111, 55-56: the call enters the lru_cache wrapper: a hit returns
\* the cached reference, a miss goes on to the function
ThreadCall(t, n) ==
    /\ threads[t].pc = "idle"
    /\ n \in ThreadKeys
    /\ IF CacheHit(cache, KeyOf(n))
       THEN /\ cache' = Touch(cache, KeyOf(n))
            /\ threads' = [threads EXCEPT ![t] =
                   [pc |-> "fetched", key |-> n,
                    df |-> cache[CacheIndex(cache, KeyOf(n))].value, hit |-> TRUE]]
       ELSE /\ cache' = cache
            /\ threads' = [threads EXCEPT ![t] =
                   [pc |-> "downloading", key |-> n, df |-> 0, hit |-> FALSE]]
    /\ UNCHANGED <<engine, call, used, since, portfolios, next_id, portfolio,
                   heap, today>>

\* lines 60-105 and the end of the wrapper: the function returns None or a
\* new frame; the wrapper stores it unless another thread stored a result
\* for the key in the meantime, and returns it
ThreadDownloaded(t) ==
    /\ threads[t].pc = "downloading"
    /\ \E rows \in (IF KeyOf(threads[t].key).symbols = <<>> THEN {<<>>} ELSE Downloads) :
          LET df == IF rows = <<>> THEN 0 ELSE FreeObject(heap)
              h  == IF rows = <<>> THEN heap ELSE [heap EXCEPT ![df] = rows]
          IN  /\ cache' = IF CacheHit(cache, KeyOf(threads[t].key)) THEN cache
                          ELSE Store(cache, KeyOf(threads[t].key), df)
              /\ threads' = [threads EXCEPT ![t] = [@ EXCEPT !.pc = "fetched", !.df = df]]
              /\ heap' = Collect(h, cache', threads')
    /\ UNCHANGED <<engine, call, used, since, portfolios, next_id, portfolio, today>>

\* the record of a call that returned
ReturnedFrame(t, rows) ==
    [op |-> "get_historical_data", thread |-> t, key |-> KeyOf(threads[t].key),
     hit |-> threads[t].hit, returned |-> rows]

\* lines 113-121: None is returned; a frame whose last row is of today is
\* returned as it is; an older one is copied for the patch
ThreadCheck(t) ==
    /\ threads[t].pc = "fetched"
    /\ IF threads[t].df = 0
       THEN /\ call' = ReturnedFrame(t, <<>>)
            /\ threads' = [threads EXCEPT ![t] = Idle]
            /\ heap' = heap
       ELSE IF heap[threads[t].df][Len(heap[threads[t].df])] < today
       THEN \E res \in {Copied(heap, threads[t].df)} :
               /\ call' = call
               /\ threads' = [threads EXCEPT ![t] =
                                 [@ EXCEPT !.pc = "patching", !.df = res.df]]
               /\ heap' = Collect(res.heap, cache, threads')
       ELSE /\ call' = ReturnedFrame(t, heap[threads[t].df])
            /\ threads' = [threads EXCEPT ![t] = Idle]
            /\ heap' = Collect(heap, cache, threads')
    /\ UNCHANGED <<engine, cache, used, since, portfolios, next_id, portfolio, today>>

\* lines 123-172: the latest prices are asked for; a price dated after the
\* last row is appended as a row to df_close, which is returned
ThreadPatch(t) ==
    /\ threads[t].pc = "patching"
    /\ \E latest \in Latest :
          LET df   == threads[t].df
              rows == IF latest > heap[df][Len(heap[df])]
                      THEN Append(heap[df], latest) ELSE heap[df]
          IN  /\ call' = ReturnedFrame(t, rows)
              /\ threads' = [threads EXCEPT ![t] = Idle]
              /\ heap' = Collect([heap EXCEPT ![df] = rows], cache, threads')
    /\ UNCHANGED <<engine, cache, used, since, portfolios, next_id, portfolio, today>>

\* midnight
Tick ==
    /\ today < MaxDay
    /\ today' = today + 1
    /\ UNCHANGED <<engine, call, cache, used, since, portfolios, next_id, portfolio,
                   heap, threads>>

----------------------------------------------------------------------------
(* Inputs                                                                  *)

\* base-weight mappings handed to the constructor
Portfolios ==
    { [t \in {"VOO", "BRK-B", "SPMO", "QQQM"} |->
          IF t = "VOO" THEN R(40, 100) ELSE IF t = "BRK-B" THEN R(30, 100)
          ELSE R(15, 100)],
      [t \in {"VOO", "QQQM", "SPMO"} |->
          IF t = "VOO" THEN R(40, 100) ELSE R(30, 100)],
      [t \in {"VOO", "QQQM", "XLE"} |-> R(1, 3)],
      [t \in {"VOO", "QQQM", "SPMO"} |->
          IF t = "VOO" THEN R(40, 100) ELSE Zero],
      [t \in {"VOO", "XLE"} |-> IF t = "VOO" THEN R(1, 8) ELSE R(1, 2)],
      [t \in {"VOO"} |-> R(1, 2)],
      [t \in {"VOO", "QQQM"} |-> IF t = "VOO" THEN R(10, 100) ELSE R(5, 100)],
      [t \in {"VOO", "AAPL", "BRK-B", "QQQM", "SPMO"} |->
          IF t = "VOO" THEN R(88, 100) ELSE R(3, 100)] }

\* (trend_adj, rel_adj): the defaults and the pair of test_custom_weights
Adjustments == { <<R(10, 100), R(5, 100)>>, <<R(5, 100), R(10, 100)>> }

\* rows at which a price series of the signal tables changes level
OldChange == MaxRows - 55

RecentChange == MaxRows - 5

Flat == [a |-> 2, b |-> 2, c |-> 1]

\* a recent large rise: above the moving average, 63-day return +200%
Surge == [a |-> 1, b |-> 3, c |-> RecentChange]

\* a recent small rise: above the moving average, 63-day return +33%
Drift == [a |-> 3, b |-> 4, c |-> RecentChange]

\* a rise older than the moving-average window: at the average, return +200%
OldRise == [a |-> 1, b |-> 3, c |-> OldChange]

\* the benchmark's recent rise: 63-day return +50%
BenchRise == [a |-> 2, b |-> 3, c |-> RecentChange]

\* no quote in the recent rows: price missing, moving average missing
Halted == [a |-> 2, b |-> Missing, c |-> RecentChange]

\* a price of zero in the recent rows
Delisted == [a |-> 2, b |-> 0, c |-> RecentChange]

\* a price of zero in the old rows: 63-day return +inf
Listed == [a |-> 0, b |-> 3, c |-> OldChange]

\* a rise inside the backtest window
LateRise == [a |-> 2, b |-> 3, c |-> MaxRows - 1]

\* a rise on the second day of the backtest window
WindowRise == [a |-> 2, b |-> 3, c |-> StartIdx + 2]

Shapes == {Flat, Surge, Drift, OldRise, BenchRise, Halted, Delisted, Listed,
           LateRise, WindowRise}

\* the price series the signal tables give a ticker
ShapesOf(t) ==
    IF t = "VOO" THEN {Flat, BenchRise}
    ELSE IF t \in {"BRK-B", "QQQM", "SPMO"} THEN {Flat, Surge, Drift, OldRise}
    ELSE IF t = "XLE" THEN {Flat, Surge, Halted, Listed}
    ELSE {Drift}

ShapeSets(bw) ==
    { sh \in [DOMAIN bw -> Shapes] : \A t \in DOMAIN bw : sh[t] \in ShapesOf(t) }

FirstDate == 1

\* the dates get_signals is asked about: before the table, a day without
\* trading just before the last row, the last row
QueryDates(df) ==
    IF Len(df) = 0 THEN {FirstDate - 1}
    ELSE {df[1].date - 1, df[Len(df)].date - 1, df[Len(df)].date}

\* a process that has fetched nothing yet, and a portfolio table holding
\* one portfolio of another account
InitWeb ==
    /\ cache = <<>>
    /\ used = 0
    /\ since = [p \in WatchedKeys |-> [asked |-> FALSE, others |-> {}]]
    /\ portfolios = {[id |-> 1, user_id |-> OtherUser,
                      name |-> [base |-> "Portfolio A", copies |-> 0],
                      type |-> "RRSP"]}
    /\ next_id = 2
    /\ portfolio = [analysis_benchmark_ticker |-> "", analysis_benchmark_weight |-> <<>>]
    /\ heap = [o \in 1..MaxObjects |-> <<>>]
    /\ threads = [t \in Threads |-> Idle]
    /\ today = FirstDate

InitObject(df, bw, adj, rx) ==
    /\ InitWeb
    /\ data = df
    /\ base_weights = bw
    /\ trend_adj = adj[1]
    /\ rel_adj = adj[2]
    /\ benchmark_ticker = "VOO"
    /\ relaxed_constraint = rx
    /\ has_indicators = FALSE
    /\ fp_tie = "unset"
    /\ pct_fill = "unset"
    /\ call = NoCall
    /\ seen = <<>>

\* a strategy object built over a full-length table
InitSignals ==
    \E bw \in Portfolios, adj \in Adjustments, rx \in BOOLEAN :
       \E sh \in ShapeSets(bw) :
          InitObject(MkTable(MaxRows, FirstDate, sh), bw, adj, rx)

NextSignals ==
    \/ CalculateIndicators
    \/ \E d \in QueryDates(data) : GetSignals(d, FALSE)

SpecSignals == InitSignals /\ [][NextSignals]_vars

\* the portfolios the backtests are run on
BacktestPortfolios ==
    { bw \in Portfolios : DOMAIN bw \in {{"VOO", "QQQM", "XLE"}, {"VOO", "QQQM", "SPMO"}}
                          /\ bw["QQQM"] # Zero }

\* the price series the backtest tables give a ticker
BacktestShapesOf(t) ==
    IF t = "VOO" THEN {Flat, BenchRise}
    ELSE IF t = "QQQM" THEN {Surge, LateRise}
    ELSE IF t = "XLE" THEN {Flat, Delisted, Halted}
    ELSE {Flat, Drift}

BacktestShapeSets(bw) ==
    { sh \in [DOMAIN bw -> Shapes] : \A t \in DOMAIN bw : sh[t] \in BacktestShapesOf(t) }

\* table lengths: empty, shorter than either warm-up allows, full
TableLengths == {0, MaWindow, StartIdx, MaxRows}

DefaultAdjustments == <<R(10, 100), R(5, 100)>>

\* the short tables: every price level, one series that changes level
ShortShapeSets(bw) ==
    { [t \in DOMAIN bw |-> Flat],
      [t \in DOMAIN bw |-> IF t = "QQQM" THEN OldRise ELSE Flat] }

InitBacktest ==
    \E bw \in BacktestPortfolios, rx \in BOOLEAN, n \in TableLengths :
       \E sh \in (IF n = MaxRows THEN BacktestShapeSets(bw) ELSE ShortShapeSets(bw)) :
          InitObject(MkTable(n, FirstDate, sh), bw, DefaultAdjustments, rx)

NextBacktest ==
    \/ CalculateIndicators
    \/ \E d \in QueryDates(data) : GetSignals(d, FALSE)
    \/ RunBacktest(FALSE)
    \/ \E freq \in Frequencies : FixedRunBacktest(freq)
    \/ CalculateMetrics

SpecBacktest == InitBacktest /\ [][NextBacktest]_vars

\* no strategy object has been built
InitIdle == InitObject(<<>>, <<>>, DefaultAdjustments, FALSE)

NextCache == \E n \in 1..MaxKeys : GetHistoricalData(n)

SpecCache == InitIdle /\ [][NextCache]_vars

NextOverride ==
    \/ \E tickers \in HoldingLists, benchmark_input \in BenchmarkInputs,
          weight_input \in WeightInputs, reset, fetched \in BOOLEAN :
          Analysis(tickers, benchmark_input, weight_input, reset, fetched)
    \/ \E k \in DOMAIN TestCases :
          TestRedistribution(TestCases[k].base_weights, "VOO",
                             TestCases[k].override_weight)

SpecOverride == InitIdle /\ [][NextOverride]_vars

NextThreads ==
    \/ \E t \in Threads, n \in ThreadKeys : ThreadCall(t, n)
    \/ \E t \in Threads : ThreadDownloaded(t)
    \/ \E t \in Threads : ThreadCheck(t)
    \/ \E t \in Threads : ThreadPatch(t)
    \/ Tick

SpecThreads == InitIdle /\ [][NextThreads]_vars

Ids == 1..(MaxId + 1)

NextPortfolios ==
    \/ \E method \in Methods, name \in Names, type \in Types :
          Create(method, name, type)
    \/ \E method \in Methods, id \in Ids, name \in Names, type \in Types :
          Rename(method, id, name, type)
    \/ \E id \in Ids : Duplicate(id)

SpecPortfolios == InitIdle /\ [][NextPortfolios]_vars

\* the portfolios of the growing tables
GrowingPortfolios ==
    { bw \in Portfolios : DOMAIN bw = {"VOO", "QQQM", "XLE"} \/ DOMAIN bw = {"VOO", "XLE"} }

GrowingShapesOf(t) ==
    IF t = "VOO" THEN {Flat}
    ELSE IF t = "QQQM" THEN {Flat, WindowRise}
    ELSE {Flat, Surge, Halted}

GrowingShapeSets(bw) ==
    { sh \in [DOMAIN bw -> Shapes] : \A t \in DOMAIN bw : sh[t] \in GrowingShapesOf(t) }

\* rows the growing tables have at first
FirstRows == MaxRows - 1

\* a strategy object over a table that a later analysis sees grown; the last
\* row of the table is in the middle of its month
InitGrowing ==
    \E bw \in GrowingPortfolios, rx \in BOOLEAN :
       \E sh \in GrowingShapeSets(bw) :
          InitObject(MkTable(FirstRows, FirstDate + Stride, sh), bw,
                     DefaultAdjustments, rx)

\* the observer remembers the first call that returns
KeepChoices == {seen = <<>>}

\* a date before the table, its last date, the date of the remembered call
GrowingDates ==
    {data[1].date - 1, data[Len(data)].date}
        \cup (IF seen # <<>> /\ seen[1].op = "get_signals" THEN {seen[1].date} ELSE {})

NextGrowing ==
    \/ CalculateIndicators
    \/ \E d \in GrowingDates, keep \in KeepChoices : GetSignals(d, keep)
    \/ \E keep \in KeepChoices : RunBacktest(keep)
    \/ \E move \in Moves : AppendRow(move)

SpecGrowing == InitGrowing /\ [][NextGrowing]_vars

----------------------------------------------------------------------------
(* Properties of get_signals                                               *)

\* the last call was a get_signals call that returned
Returned == call.op = "get_signals" /\ call.raised = "none"

\* ... for a date on or after the first trading day of the table
ReturnedForRow == Returned /\ call.row > 0

\* w is an integer multiple of 0.05
OnGrid(w) == IsFinite(w) /\ (w[1] * GridSteps) % w[2] = 0

SumsToOneOnGrid(w) == SumValues(w) = One /\ \A t \in DOMAIN w : OnGrid(w[t])

\* the independently rounded weights of the last call do not sum to 1
DriftCorrected ==
    ReturnedForRow
    /\ SumValues([t \in DOMAIN call.target |-> RoundToGrid(call.target[t], fp_tie)]) # One

\* C1 as stated: for every query date, in both modes, the weights returned
\* by get_signals sum to exactly 1.00 and each is a multiple of 0.05.
C1_AnyDate == Returned => SumsToOneOnGrid(call.weights)

\* C1, amended: whenever the query date is on or after the first trading
\* day of the table, the weights returned by get_signals sum to exactly
\* 1.00 and each is an integer multiple of 0.05, in both modes.
C1_SumAndGrid == ReturnedForRow => SumsToOneOnGrid(call.weights)

\* a call whose rounded weights had to be corrected to sum to 1
C1_Witness == DriftCorrected /\ relaxed_constraint

\* C2: every weight returned by get_signals lies in [0, 1], the ticker that
\* receives the rounding difference included.
C2_WeightsInUnitInterval ==
    Returned => \A t \in DOMAIN call.weights :
                    RGe(call.weights[t], Zero) /\ RGe(One, call.weights[t])

\* w is a grid point nearest to b
NearestOnGrid(w, b) ==
    OnGrid(w) /\ RGe(R(1, 2 * GridSteps), RSub(w, b)) /\ RGe(R(1, 2 * GridSteps), RSub(b, w))

\* C3 as stated: in strict mode, for every query date, the benchmark's
\* returned weight is its base weight rounded to the nearest 0.05.
C3_AnyDateAnyPortfolio ==
    (Returned /\ ~relaxed_constraint)
        => NearestOnGrid(call.weights[benchmark_ticker], base_weights[benchmark_ticker])

\* C3, amended: in strict mode, for a query date on or after the first
\* trading day and a portfolio with at least one ticker besides the
\* benchmark, the benchmark's returned weight is its base weight rounded to
\* the nearest 0.05: the rounding difference goes to another ticker.
C3_BenchmarkPinned ==
    (ReturnedForRow /\ ~relaxed_constraint /\ Cardinality(DOMAIN base_weights) > 1)
        => NearestOnGrid(call.weights[benchmark_ticker], base_weights[benchmark_ticker])

\* a strict-mode call with a rounding difference in which the benchmark is
\* the largest holding
C3_Witness ==
    /\ DriftCorrected
    /\ ~relaxed_constraint
    /\ Cardinality(DOMAIN base_weights) > 1
    /\ \A t \in DOMAIN call.weights :
          RGe(call.weights[benchmark_ticker], call.weights[t])

\* the benchmark's price is above its moving average at the row of the call
BenchTrendUp ==
    TrendUp(PriceRow(data, call.row), MovingAverage(data, call.row), benchmark_ticker)

\* C9: in relaxed mode the benchmark's weight before clamping and
\* normalization is its base weight plus trend_adj when its price is above
\* its moving average and minus trend_adj otherwise, with no
\* relative-strength term.
C9_RelaxedBenchmarkTrendOnly ==
    (ReturnedForRow /\ relaxed_constraint)
        => call.adjusted[benchmark_ticker] =
              (IF BenchTrendUp
               THEN RAdd(base_weights[benchmark_ticker], trend_adj)
               ELSE RSub(base_weights[benchmark_ticker], trend_adj))

\* a relaxed call on a row where the benchmark is in an uptrend while
\* another ticker's adjustment has a relative-strength term
C9_Witness ==
    /\ ReturnedForRow
    /\ relaxed_constraint
    /\ BenchTrendUp
    /\ rel_adj # Zero
    /\ Cardinality(DOMAIN base_weights) > 1

\* the scenario of C10: the four base weights, strict mode, default adjustments
Scenario ==
    /\ DOMAIN base_weights = {"VOO", "BRK-B", "SPMO", "QQQM"}
    /\ base_weights["VOO"] = R(40, 100)
    /\ base_weights["BRK-B"] = R(30, 100)
    /\ base_weights["SPMO"] = R(15, 100)
    /\ base_weights["QQQM"] = R(15, 100)
    /\ benchmark_ticker = "VOO"
    /\ ~relaxed_constraint
    /\ trend_adj = R(10, 100)
    /\ rel_adj = R(5, 100)

\* the last call was made in the scenario on a row where QQQM is above its
\* moving average and its 63-day return is not above VOO's
QqqmUpUnder ==
    /\ Scenario
    /\ ReturnedForRow
    /\ TrendUp(PriceRow(data, call.row), MovingAverage(data, call.row), "QQQM")
    /\ ~Outperforms(PeriodReturn(data, call.row, pct_fill = "pad"), "QQQM", "VOO")

\* C10 as stated: there QQQM's pre-discretization weight is 0.20 and its
\* returned weight is 0.20.
C10_AlwaysOneFifth ==
    QqqmUpUnder => call.target["QQQM"] = R(20, 100) /\ call.weights["QQQM"] = R(20, 100)

\* the clamped adjusted weights of the non-benchmark tickers, summed
OtherSum == SumValues([t \in DOMAIN call.adjusted |-> RMax0(call.adjusted[t])])

\* C10, amended: there QQQM's adjusted weight before clamping and rescaling
\* is 0.20; its pre-discretization weight is 0.20 rescaled by 0.60 over the
\* sum of the clamped adjusted weights of the three non-benchmark tickers,
\* and its returned weight is a multiple of 0.05 between 0.15 and 0.35.
C10_AdjustedOneFifth ==
    QqqmUpUnder =>
        /\ call.adjusted["QQQM"] = R(20, 100)
        /\ call.target["QQQM"] = RDiv(RMul(R(20, 100), R(60, 100)), OtherSum)
        /\ OnGrid(call.weights["QQQM"])
        /\ RGe(call.weights["QQQM"], R(15, 100))
        /\ RGe(R(35, 100), call.weights["QQQM"])

\* the scenario call in which the returned weight is not 0.20
C10_Witness == QqqmUpUnder /\ call.weights["QQQM"] # R(20, 100)

----------------------------------------------------------------------------
(* Properties of the backtests                                             *)

\* the last call was a backtest that returned
RotationReturned == call.op = "run_backtest" /\ call.raised = "none"

FixedReturned == call.op = "fixed_run_backtest" /\ call.raised = "none"

\* C4: in both the rotation backtest and the fixed-rebalance backtest, the
\* first entry of the returned portfolio value series equals the initial
\* capital 10,000 exactly.
C4_FirstValueIsCapital ==
    ((RotationReturned \/ FixedReturned) /\ Len(call.portfolio_series) > 0)
        => call.portfolio_series[1].value = <<Capital, 1>>

\* C5: run_backtest on a price table with fewer rows than the warm-up
\* requires (50 rows, an empty table) returns an empty value series and an
\* empty weights history and does not raise.
C5_ShortTableReturnsEmpty ==
    (call.op = "run_backtest" /\ Len(data) <= StartIdx)
        => /\ call.raised = "none"
           /\ call.portfolio_series = <<>>
           /\ call.weights_df = <<>>

----------------------------------------------------------------------------
(* Properties that compare two calls                                       *)

\* the last call is a second get_signals call for the remembered date
SecondSignals ==
    /\ seen # <<>>
    /\ seen[1].op = "get_signals"
    /\ Returned
    /\ ~call.kept
    /\ call.date = seen[1].date

\* the last call is a second rotation backtest
SecondBacktest ==
    /\ seen # <<>>
    /\ seen[1].op = "run_backtest"
    /\ RotationReturned
    /\ ~call.kept

\* the table has grown since the remembered call, by rows dated after d
GrownAfter(d) == Len(data) > seen[1].rows /\ data[seen[1].rows + 1].date > d

\* C6: no look-ahead.  For two price tables that are identical on all rows
\* up to and including date d, get_signals(d) returns the same weights on
\* both, and the rotation backtests over both tables give the same
\* portfolio value for every date up to and including d.
C6_NoLookAhead ==
    /\ (SecondSignals /\ GrownAfter(seen[1].date))
          => call.weights = seen[1].weights
    /\ (SecondBacktest /\ Len(data) > seen[1].rows)
          => /\ Len(call.portfolio_series) >= Len(seen[1].portfolio_series)
             /\ \A k \in 1..Len(seen[1].portfolio_series) :
                   call.portfolio_series[k] = seen[1].portfolio_series[k]

\* a second backtest over a table that grew by a row with other prices, the
\* value having moved inside the dates both backtests cover
C6_Witness ==
    /\ SecondBacktest
    /\ Len(data) > seen[1].rows
    /\ data[Len(data)].px # data[seen[1].rows].px
    /\ \E k \in 1..Len(seen[1].portfolio_series) :
          seen[1].portfolio_series[k].value # <<Capital, 1>>

\* a second get_signals call for the last date of a table that grew since
C6_SignalsWitness ==
    /\ SecondSignals
    /\ GrownAfter(seen[1].date)
    /\ call.row = seen[1].rows
    /\ data[Len(data)].px # data[seen[1].rows].px

----------------------------------------------------------------------------
(* Properties of the rebalancing calendar and of allocation                *)

\* the last table row of each calendar year
YearEndRows ==
    { i \in 1..Len(data) :
         i = Len(data) \/ YearOf(data[i + 1].date) # YearOf(data[i].date) }

\* the table spans three calendar years and does not start on a year end
ThreeYearTable ==
    /\ Len(data) > 0
    /\ YearOf(data[Len(data)].date) = YearOf(data[1].date) + 2
    /\ 1 \notin YearEndRows

\* C11: the fixed-rebalance backtest with frequency 'annual' on a daily
\* table spanning three calendar years (first row not a year end) returns a
\* weights history with exactly 3 rows, one per last trading day of each
\* calendar year.
C11_AnnualThreeRows ==
    (FixedReturned /\ call.frequency = "annual" /\ ThreeYearTable)
        => /\ Len(call.weights_df) = 3
           /\ {call.weights_df[k].date : k \in 1..Len(call.weights_df)}
                 = {data[i].date : i \in YearEndRows}

\* the table row of the k-th day of the last backtest
DayRow(k) == IF call.op = "run_backtest" THEN StartIdx + k ELSE k

\* the rows on which the last backtest allocated: the start day and every
\* rebalancing day from there on
AllocationRows ==
    IF call.op = "run_backtest"
    THEN {StartIdx + 1} \cup {i \in RebalanceRows(data, "monthly") : i > StartIdx}
    ELSE {1} \cup RebalanceRows(data, call.frequency)

\* C12: in both backtests, when a symbol's price is zero or missing on an
\* allocation or rebalancing day, the symbol holds zero units afterwards,
\* and no error value gets into the units held that day.
C12_BadPriceHoldsZeroUnits ==
    (RotationReturned \/ FixedReturned)
        => \A k \in 1..Len(call.holdings) :
              DayRow(k) \in AllocationRows
                 => \A t \in DOMAIN call.holdings[k].units :
                       /\ IsFinite(call.holdings[k].units[t])
                       /\ data[DayRow(k)].px[t] <= 0
                             => call.holdings[k].units[t] = Zero

----------------------------------------------------------------------------
(* Properties of the date lookup, the rounding and the strict rescaling    *)

\* the rows dated before the date of the last call
RowsBefore == {i \in 1..Len(data) : data[i].date < call.date}

\* C15: get_signals called with a date that is not in the table uses the
\* most recent trading day before that date (its prices, moving averages
\* and returns come back, and the weights are the ones of that row); when no
\* trading day precedes the date it returns the base weights as they are,
\* with empty prices, moving averages and returns.
C15_PadLookup ==
    (Returned /\ call.date \notin Index(data))
        => IF RowsBefore = {}
           THEN /\ call.weights = base_weights
                /\ call.prices = <<>> /\ call.ma = <<>> /\ call.returns = <<>>
           ELSE \E i \in RowsBefore :
                   /\ \A j \in RowsBefore : j <= i
                   /\ call.prices = PriceRow(data, i)
                   /\ call.ma = [t \in Columns(data) |-> RollingMean(data, t, i)]
                   /\ call.returns =
                         [t \in Columns(data) |->
                             PctChange(data, t, i, pct_fill = "pad")]
                   /\ call.weights =
                         SignalsAt(data, pct_fill = "pad", base_weights,
                                   benchmark_ticker, trend_adj, rel_adj,
                                   relaxed_constraint, i, fp_tie).weights

\* a call for a day without trading between two rows of the table
C15_Witness ==
    /\ Returned
    /\ call.date \notin Index(data)
    /\ RowsBefore # {}
    /\ \E i \in 1..Len(data) : data[i].date > call.date

\* the tickers the claim calls eligible for the rounding difference
Eligible ==
    IF ~relaxed_constraint /\ Cardinality(DOMAIN call.rounded) > 1
    THEN DOMAIN call.rounded \ {benchmark_ticker}
    ELSE DOMAIN call.rounded

\* t holds the largest (rounded weight, name) pair among the eligible
LargestEligible(t) ==
    /\ t \in Eligible
    /\ \A u \in Eligible :
          \/ u = t
          \/ RGt(call.rounded[t], call.rounded[u])
          \/ (call.rounded[t] = call.rounded[u] /\ TickerLt(u, t))

\* the independently rounded weights of the last call do not sum to 1
RoundedOff ==
    /\ ReturnedForRow
    /\ \A t \in DOMAIN call.rounded : NearestOnGrid(call.rounded[t], call.target[t])
    /\ SumValues(call.rounded) # One

\* C18: when the independently rounded weights do not sum to 1, exactly one
\* symbol is changed, the whole difference is added to it, and it is the
\* eligible symbol with the largest (rounded weight, name) pair; every other
\* symbol keeps its rounded weight.
C18_OneSymbolTakesDifference ==
    RoundedOff
        => \E t \in DOMAIN call.rounded :
              /\ LargestEligible(t)
              /\ call.weights[t] =
                    RAdd(call.rounded[t], RSub(One, SumValues(call.rounded)))
              /\ call.weights[t] # call.rounded[t]
              /\ \A u \in DOMAIN call.rounded \ {t} :
                    call.weights[u] = call.rounded[u]

\* the difference went to one of two eligible symbols of equal rounded
\* weight, in strict mode
C18_Witness ==
    /\ RoundedOff
    /\ ~relaxed_constraint
    /\ \E t \in Eligible : \E u \in Eligible \ {t} :
          LargestEligible(t) /\ call.rounded[u] = call.rounded[t]

\* the grid point above w
GridPointAbove(w) == R(((w[1] * GridSteps) \div w[2]) + 1, GridSteps)

\* C19: a weight exactly halfway between two grid points (an odd multiple of
\* 0.025) is rounded up to the higher grid point.
C19_TiesRoundUp ==
    ReturnedForRow
        => \A t \in DOMAIN call.target :
              IsTie(RMul(call.target[t], <<GridSteps, 1>>))
                 => call.rounded[t] = GridPointAbove(call.target[t])

\* the non-benchmark symbols of the portfolio
OtherSymbols == DOMAIN base_weights \ {benchmark_ticker}

ClampedSum == SumValues([t \in OtherSymbols |-> RMax0(call.adjusted[t])])

BaseOtherSum == SumValues([t \in OtherSymbols |-> base_weights[t]])

TargetOtherSum == RSub(One, base_weights[benchmark_ticker])

\* the others are the clamped adjusted weights rescaled to 1 - benchmark
\* weight, or the base weights rescaled when every one clamps to zero
RescaledOrBase ==
    \A t \in OtherSymbols :
        call.target[t] =
            IF ClampedSum # Zero
            THEN RDiv(RMul(RMax0(call.adjusted[t]), TargetOtherSum), ClampedSum)
            ELSE RDiv(RMul(base_weights[t], TargetOtherSum), BaseOtherSum)

\* C20 as stated: in strict mode the pre-discretization weights of the
\* non-benchmark symbols are the clamped adjusted weights rescaled to sum to
\* 1 - base_weight[benchmark], or proportional to the base weights when all
\* clamp to zero, and in both cases they sum to 1 - base_weight[benchmark].
C20_AlwaysRescaled ==
    (ReturnedForRow /\ ~relaxed_constraint)
        => /\ RescaledOrBase
           /\ SumValues([t \in OtherSymbols |-> call.target[t]]) = TargetOtherSum

\* C20, amended: that holds whenever some non-benchmark symbol has a positive
\* clamped adjusted weight or a positive base weight; otherwise (no other
\* symbol, or all of them at zero) every non-benchmark weight stays 0.
C20_RescaledWhenPositive ==
    (ReturnedForRow /\ ~relaxed_constraint)
        => IF ClampedSum # Zero \/ BaseOtherSum # Zero
           THEN /\ RescaledOrBase
                /\ SumValues([t \in OtherSymbols |-> call.target[t]]) = TargetOtherSum
           ELSE \A t \in OtherSymbols : call.target[t] = Zero

\* every adjusted weight clamped to zero and the base proportions were used
C20_Witness ==
    /\ ReturnedForRow
    /\ ~relaxed_constraint
    /\ ClampedSum = Zero
    /\ BaseOtherSum # Zero

----------------------------------------------------------------------------
(* Properties of the download cache                                        *)

\* the step is a get_historical_data call with the n-th argument tuple
Requests(n) == call'.op = "get_historical_data" /\ call'.key = KeyOf(n)

\* C16 as stated: a call whose arguments equal those of an earlier call
\* does not trigger another bulk download, and a call with a (non-empty)
\* symbol set not requested before triggers one.
C16_EqualArgumentsNeverDownload ==
    [][ /\ \A p \in WatchedKeys :
              (Requests(p) /\ since[p].asked) => call'.download = "none"
        /\ \A n \in 1..MaxKeys :
              (Requests(n) /\ n > used /\ KeyOf(n).symbols # <<>>
                  /\ \A m \in 1..used :
                        {KeyOf(m).symbols[k] : k \in DOMAIN KeyOf(m).symbols}
                           # {KeyOf(n).symbols[k] : k \in DOMAIN KeyOf(n).symbols})
                 => call'.download # "none" ]_vars

\* C16, amended: a call whose argument tuple (the symbols in the order
\* given, period, start and end date) equals that of an earlier call
\* triggers no download as long as fewer than 32 other distinct tuples were
\* requested since that call, and triggers one (for a non-empty tuple of
\* symbols) once 32 others were; a call with an argument tuple not requested
\* before triggers a download exactly when its tuple of symbols is not empty.
C16_NoDownloadWithinLast32 ==
    [][ /\ \A p \in WatchedKeys :
              Requests(p) =>
                 (call'.download = "none"
                     <=> \/ KeyOf(p).symbols = <<>>
                         \/ (since[p].asked
                               /\ Cardinality(since[p].others) < CacheSize))
        /\ \A n \in 1..MaxKeys :
              (Requests(n) /\ n > used) =>
                 (call'.download = "none" <=> KeyOf(n).symbols = <<>>) ]_vars

\* a repeated call answered from the cache after other tuples were fetched
C16_Witness ==
    /\ call.op = "get_historical_data"
    /\ call.hit
    /\ call.value = "frame"
    /\ used > 2
    /\ Len(cache) > 2

----------------------------------------------------------------------------
(* Properties of the portfolio requests                                    *)

Mine == {q \in portfolios : q.user_id = CurrentUser}

\* no two portfolios of the user share a (name, type) pair
UniqueNames ==
    \A q \in Mine : \A r \in Mine : (q.name = r.name /\ q.type = r.type) => q.id = r.id

\* the step is a create, rename or duplicate that changes something if it
\* is accepted, aimed at a portfolio of the user where it names one
Changing ==
    /\ call'.op \in {"create", "rename", "duplicate"}
    /\ call'.op = "create" => call'.method = "POST"
    /\ call'.op = "rename" => call'.method = "POST"
    /\ call'.op # "create" => \E q \in Mine : q.id = call'.id

\* another portfolio of the user already holds the requested (name, type)
Collides ==
    \E q \in Mine :
        /\ q.name = call'.name
        /\ q.type = call'.type
        /\ call'.op = "rename" => q.id # call'.id

Accepted == call'.status \in {"created", "renamed", "duplicated"}

\* C17: after any sequence of create, rename and duplicate requests no two
\* portfolios of the user share a (name, type) pair; a request that would
\* collide is rejected and leaves the stored portfolios unchanged; renaming
\* a portfolio to a free pair succeeds.
C17_UniqueNameAndType ==
    /\ []UniqueNames
    /\ [][ /\ (Changing /\ Collides)
                => (~Accepted /\ portfolios' = portfolios)
           /\ (Changing /\ call'.op = "rename" /\ ~Collides)
                => /\ call'.status = "renamed"
                   /\ \E q \in portfolios' :
                         /\ q.id = call'.id
                         /\ q.name = call'.name
                         /\ q.type = call'.type
                   /\ {q.id : q \in portfolios'} = {q.id : q \in portfolios} ]_vars

\* a rename turned down because another portfolio of the user holds the pair
C17_Witness ==
    /\ call.op = "rename"
    /\ call.status = "already exists"
    /\ Cardinality(Mine) > 1
    /\ \E q \in Mine : q.id # call.id /\ q.name = call.name /\ q.type = call.type

----------------------------------------------------------------------------
(* Properties of calculate_metrics                                         *)

MetricsReturned == call.op = "calculate_metrics" /\ call.raised = "none"

\* the monthly returns from position lo to hi are all positive (sign 1) or
\* all negative (sign -1)
RunOf(rets, lo, hi, sign) ==
    \A k \in lo..hi :
        IF sign > 0 THEN RGt(rets[k], Zero) ELSE RGt(Zero, rets[k])

\* the length of the longest run of consecutive months of that sign: a
\* month with zero return ends a run
LongestRun(rets, sign) ==
    LET L == { n \in 0..Len(rets) :
                  n = 0 \/ \E lo \in 1..(Len(rets) - n + 1) :
                              RunOf(rets, lo, lo + n - 1, sign) }
    IN  CHOOSE n \in L : \A m \in L : m <= n

\* C13: a month with exactly zero return resets both streak counters, so
\* the winning (losing) streak returned is the longest run of consecutive
\* positive (negative) months, and two runs separated by a zero-return
\* month are never counted as one.
C13_ZeroMonthResetsStreaks ==
    MetricsReturned
        => /\ call.metrics.winning_streak = LongestRun(call.metrics.monthly_returns, 1)
           /\ call.metrics.losing_streak = LongestRun(call.metrics.monthly_returns, -1)

\* the largest value of the series up to position t
RunningMax(ps, t) ==
    ps[CHOOSE j \in 1..t : \A i \in 1..t : RGe(ps[j].value, ps[i].value)].value

\* C14: for every non-empty value series calculate_metrics returns
\* max_drawdown equal to the minimum over t of
\* (value[t] - running_max[t]) / running_max[t], a value <= 0, and
\* total_return equal to last/first - 1.
C14_DrawdownAndTotalReturn ==
    (MetricsReturned /\ Len(call.portfolio_series) > 0)
        => LET ps == call.portfolio_series
               dd(t) == RDiv(RSub(ps[t].value, RunningMax(ps, t)), RunningMax(ps, t))
           IN  /\ RGe(Zero, call.metrics.max_drawdown)
               /\ \E t \in 1..Len(ps) : call.metrics.max_drawdown = dd(t)
               /\ \A t \in 1..Len(ps) : RGe(dd(t), call.metrics.max_drawdown)
               /\ call.metrics.total_return
                     = RSub(RDiv(ps[Len(ps)].value, ps[1].value), One)

\* the metrics of a value series whose values are all positive and finite
C14_PositiveSeries ==
    (MetricsReturned /\ Len(call.portfolio_series) > 0
        /\ \A t \in 1..Len(call.portfolio_series) :
              IsFinite(call.portfolio_series[t].value)
              /\ RGt(call.portfolio_series[t].value, Zero))
        => C14_DrawdownAndTotalReturn

----------------------------------------------------------------------------
(* Properties of the relaxed normalization                                 *)

\* the total of the clamped adjusted weights of the last call
ClampedTotal ==
    SumValues([t \in DOMAIN call.adjusted |-> RMax0(call.adjusted[t])])

\* C21: in relaxed mode the pre-discretization weights are the clamped
\* adjusted weights divided by their total, so they sum to 1.0; when every
\* adjusted weight clamps to zero they are exactly the base weights; no
\* weight is the outcome of a division by zero.
C21_RelaxedNormalization ==
    (ReturnedForRow /\ relaxed_constraint)
        => /\ DOMAIN call.target = DOMAIN base_weights
           /\ \A t \in DOMAIN call.target : IsFinite(call.target[t])
           /\ IF ClampedTotal # Zero
              THEN /\ \A t \in DOMAIN call.target :
                         call.target[t] = RDiv(RMax0(call.adjusted[t]), ClampedTotal)
                   /\ SumValues(call.target) = One
              ELSE call.target = base_weights

\* a relaxed call in which every adjusted weight clamped to zero
C21_Witness ==
    /\ ReturnedForRow
    /\ relaxed_constraint
    /\ ClampedTotal = Zero
    /\ \E t \in DOMAIN base_weights : base_weights[t] # Zero

----------------------------------------------------------------------------
(* Properties of the rotation backtest                                     *)

\* the last table rows of the calendar months
MonthEndRows ==
    { i \in 1..Len(data) :
         i = Len(data) \/ MonthKey(data[i + 1].date) # MonthKey(data[i].date) }

\* the weights recorded for the date of row i
RecordedWeights(i) ==
    (CHOOSE r \in {call.weights_df[k] : k \in 1..Len(call.weights_df)} :
        r.date = data[i].date).weights

\* equality of two floating-point values: an undefined value equals nothing
SameNumber(a, b) == ~IsNaN(a) /\ ~IsNaN(b) /\ a = b

\* C22: in the rotation backtest the units held change only on rebalancing
\* dates; right after a rebalance on date d every symbol satisfies
\* units[s] * price[s, d] = value(d) * target_weight[s], the holdings are
\* then worth the value recorded for d, and cash is 0 from the first
\* allocation on.
C22_UnitsFollowTargets ==
    RotationReturned
        => \A k \in 1..Len(call.holdings) :
              LET i     == StartIdx + k
                  units == call.holdings[k].units
                  price == PriceRow(data, i)
                  value == call.portfolio_series[k].value
              IN  /\ SameNumber(call.holdings[k].cash, Zero)
                  /\ IF i \in MonthEndRows
                     THEN /\ \A s \in DOMAIN units :
                                SameNumber(RMul(units[s], price[s]),
                                           RMul(value, RecordedWeights(i)[s]))
                          /\ SameNumber(HoldingsValue(units, price), value)
                     ELSE IF k > 1
                     THEN units = call.holdings[k - 1].units
                     ELSE \A s \in DOMAIN units :
                             SameNumber(RMul(units[s], price[s]),
                                        RMul(<<Capital, 1>>, RecordedWeights(i)[s]))

\* the prices the rotation backtest divides by are all positive
PositivePrices ==
    \A i \in (StartIdx + 1)..Len(data) :
       \A s \in DOMAIN data[i].px : data[i].px[s] > 0

\* the statement of C22 for tables whose prices are positive from the start
\* day on
C22_PositivePrices == PositivePrices => C22_UnitsFollowTargets

\* the weights get_signals returns for the date of row i in this process
SignalWeights(i) ==
    SignalsAt(data, pct_fill = "pad", base_weights, benchmark_ticker, trend_adj,
              rel_adj, relaxed_constraint, i, fp_tie).weights

\* the dates of the rows of the returned WeightsHistory
RecordedDates == {call.weights_df[k].date : k \in 1..Len(call.weights_df)}

\* C23: the WeightsHistory of the rotation backtest has a row for every
\* rebalancing date (last trading day of a calendar month) from the start day
\* on and no row for any other day, and each row equals the weights
\* get_signals returns for that date.
C23_RowsOnRebalancingDatesOnly ==
    RotationReturned
        => /\ RecordedDates = {data[i].date : i \in {j \in MonthEndRows : j > StartIdx}}
           /\ \A i \in (StartIdx + 1)..Len(data) :
                 data[i].date \in RecordedDates
                    => RecordedWeights(i) = SignalWeights(i)

\* the rows the rotation backtest records: the same, and the start day
C23_RowsOnRebalancingDatesAndStart ==
    RotationReturned
        => /\ RecordedDates
                 = {data[i].date : i \in {j \in MonthEndRows : j > StartIdx}
                                             \cup {StartIdx + 1}}
           /\ \A i \in (StartIdx + 1)..Len(data) :
                 data[i].date \in RecordedDates
                    => RecordedWeights(i) = SignalWeights(i)

----------------------------------------------------------------------------
(* Properties of the indicator tables                                      *)

\* the columns whose prices are all present and positive
DefinedColumns == {t \in Columns(data) : \A j \in 1..Len(data) : data[j].px[t] > 0}

\* self.ma_50 and self.returns_3m at row i, column t, once computed
Ma50(i, t) == MovingAverage(data, i)[t]

Returns3m(i, t) == PeriodReturn(data, i, pct_fill = "pad")[t]

\* calculate_indicators has just returned
Computed == call.op = "calculate_indicators"

\* C24 as stated: the moving average is undefined on exactly the first 50
\* rows, the return on exactly the first 63 rows
C24_FirstFiftyRowsUndefined ==
    Computed
        => \A i \in 1..Len(data) : \A t \in DefinedColumns :
              /\ IsNaN(Ma50(i, t)) <=> i <= MaWindow
              /\ IsNaN(Returns3m(i, t)) <=> i <= ReturnPeriods

\* C24: after calculate_indicators the 50-day moving average of a column of
\* present, positive prices is undefined on exactly the first 49 rows (row 50
\* is the first one with 50 observations), and the 63-day return is
\* undefined on exactly the first 63 rows; both are defined on every later
\* row.
C24_WarmUpRows ==
    Computed
        => \A i \in 1..Len(data) : \A t \in DefinedColumns :
              /\ IsNaN(Ma50(i, t)) <=> i < MaWindow
              /\ IsNaN(Returns3m(i, t)) <=> i <= ReturnPeriods

\* indicators computed over a table of exactly 50 rows: the last row has a
\* moving average and no return
C24_Witness ==
    /\ Computed
    /\ Len(data) = MaWindow
    /\ \E t \in DefinedColumns :
          /\ IsFinite(Ma50(MaWindow, t))
          /\ IsNaN(Ma50(MaWindow - 1, t))
          /\ IsNaN(Returns3m(MaWindow, t))

----------------------------------------------------------------------------
(* Properties relating the signals of two symbols                          *)

\* t and u are symbols besides the benchmark with the same base weight, and
\* the signals of the last call favour t: its adjusted weight is higher
Favoured(t, u) ==
    /\ t # benchmark_ticker
    /\ u # benchmark_ticker
    /\ base_weights[t] = base_weights[u]
    /\ RGt(call.adjusted[t], call.adjusted[u])

\* C26 as stated: the favoured symbol never receives a lower final
\* discretized weight than the other
C26_FavouredNeverLower ==
    (ReturnedForRow /\ ~relaxed_constraint)
        => \A t, u \in DOMAIN call.weights :
              Favoured(t, u) => RGe(call.weights[t], call.weights[u])

\* C26: in strict mode, of two non-benchmark symbols with equal base weight
\* the one with the higher adjusted weight never receives a lower weight
\* from the rounding to multiples of 0.05, and never a lower final weight
\* when the rounded weights sum to 1.0, that is when no drift correction is
\* added to one symbol.
C26_FavouredNeverRoundedLower ==
    (ReturnedForRow /\ ~relaxed_constraint)
        => \A t, u \in DOMAIN call.weights :
              Favoured(t, u)
                 => /\ RGe(call.rounded[t], call.rounded[u])
                    /\ SumValues(call.rounded) = One
                          => RGe(call.weights[t], call.weights[u])

\* a favoured symbol ends with the higher final weight
C26_Witness ==
    /\ ReturnedForRow
    /\ ~relaxed_constraint
    /\ SumValues(call.rounded) = One
    /\ \E t, u \in DOMAIN call.weights :
          /\ Favoured(t, u)
          /\ base_weights[t] # Zero
          /\ RGt(call.weights[t], call.weights[u])

----------------------------------------------------------------------------
(* Properties of the rebalancing dates                                     *)

\* the dates of the table that are the last trading day of a span of n
\* calendar months, the spans counted from January
PeriodEnds(n) ==
    { data[i].date : i \in { j \in 1..Len(data) :
         j = Len(data)
            \/ MonthKey(data[j + 1].date) \div n # MonthKey(data[j].date) \div n } }

\* the months in a rebalancing period
MonthsIn(freq) ==
    IF freq = "monthly" THEN 1
    ELSE IF freq = "quarterly" THEN 3
    ELSE IF freq = "semiannual" THEN 6
    ELSE 12

\* C27: the fixed-rebalance backtest takes as rebalancing dates the last
\* trading days of the months, quarters, half-years or years of the table,
\* an unrecognized frequency gives the quarterly dates, and over one table
\* annual dates are semiannual dates, semiannual dates are quarterly dates
\* and quarterly dates are monthly dates.
C27_NestedRebalancingDates ==
    (FixedReturned /\ Len(data) > 0)
        => /\ call.rebalance_dates
                 = PeriodEnds(IF call.frequency \in {"monthly", "semiannual", "annual"}
                              THEN MonthsIn(call.frequency) ELSE MonthsIn("quarterly"))
           /\ PeriodEnds(MonthsIn("annual")) \subseteq PeriodEnds(MonthsIn("semiannual"))
           /\ PeriodEnds(MonthsIn("semiannual")) \subseteq PeriodEnds(MonthsIn("quarterly"))
           /\ PeriodEnds(MonthsIn("quarterly")) \subseteq PeriodEnds(MonthsIn("monthly"))

\* an unrecognized frequency over a table on which the four sets differ
C27_Witness ==
    /\ FixedReturned
    /\ call.frequency = "weekly"
    /\ call.rebalance_dates = PeriodEnds(MonthsIn("quarterly"))
    /\ PeriodEnds(MonthsIn("annual")) # PeriodEnds(MonthsIn("semiannual"))
    /\ PeriodEnds(MonthsIn("semiannual")) # call.rebalance_dates
    /\ call.rebalance_dates # PeriodEnds(MonthsIn("monthly"))

\* the date of the last row of the table
LastDate == data[Len(data)].date

\* C28: in both backtests the last trading day of the price table is a
\* rebalancing date, also when it is not the last day of its calendar
\* period: the returned WeightsHistory has a row for it, and the fixed
\* backtest has it among its rebalancing dates.
C28_LastDayRebalances ==
    /\ RotationReturned => LastDate \in RecordedDates
    /\ (FixedReturned /\ Len(data) > 0)
          => /\ LastDate \in RecordedDates
             /\ LastDate \in call.rebalance_dates

\* a backtest returned over a table whose last day is followed, on the
\* calendar, by a trading day of the same month
C28_Witness ==
    /\ RotationReturned \/ FixedReturned
    /\ Len(data) > StartIdx
    /\ MonthKey(LastDate + Stride) = MonthKey(LastDate)
    /\ LastDate \in RecordedDates
    /\ data[Len(data) - 1].date \notin RecordedDates

----------------------------------------------------------------------------
(* Properties of what the download cache holds                             *)

\* the cache c holds the result v for the argument tuple key
Holds(c, key, v) == \E k \in 1..Len(c) : c[k].key = key /\ c[k].value = v

\* C30: a failed or empty download is memoized: a call of
\* _fetch_historical_data that returns None leaves the None in the cache,
\* and as long as that entry is in the 32-entry cache every call with the
\* same arguments returns None without a download and leaves the entry
\* there.
C30_NoneMemoized ==
    [][ call'.op = "get_historical_data"
           => /\ (~call'.hit /\ call'.value = "None")
                    => Holds(cache', call'.key, "None")
              /\ Holds(cache, call'.key, "None")
                    => /\ call'.hit
                       /\ call'.download = "none"
                       /\ call'.returned = "None"
                       /\ Holds(cache', call'.key, "None") ]_vars

\* a call answered with the None of an earlier failed download of the same
\* symbols, other tuples having been fetched in between
C30_Witness ==
    /\ call.op = "get_historical_data"
    /\ call.hit
    /\ call.value = "None"
    /\ call.returned = "None"
    /\ call.key.symbols # <<>>
    /\ used > 3

----------------------------------------------------------------------------
(* Properties of the benchmark-weight override                             *)

\* the last request (or test call) applied an override weight
Applied ==
    /\ call.op \in {"analysis", "test_redistribution"}
    /\ call.status = "ok"
    /\ call.override_weight # <<>>

\* the symbols besides the benchmark
Others == DOMAIN call.base_weights \ {call.benchmark_ticker}

\* the others keep their proportions, or are equal when they summed to 0
KeepProportions ==
    IF RGt(SumOver(call.before, Others), Zero)
    THEN \A t, u \in Others :
            RMul(call.base_weights[t], call.before[u])
               = RMul(call.base_weights[u], call.before[t])
    ELSE \A t, u \in Others : call.base_weights[t] = call.base_weights[u]

\* C25 as stated: after an override w in [0, 1] the benchmark's base weight
\* is w, the others keep their proportions, and the base weights sum to 1.0
C25_OverrideSumsToOne ==
    Applied
        => /\ call.base_weights[call.benchmark_ticker] = call.override_weight
           /\ KeepProportions
           /\ SumValues(call.base_weights) = One

\* C25: after a benchmark-weight override w in [0, 1] the benchmark's base
\* weight is w and the other symbols keep their relative proportions (or
\* share equally when their previous sum is 0); the base weights sum to 1.0
\* when there is another symbol, and to w when the benchmark is the only
\* one.
C25_OverrideRedistributes ==
    Applied
        => /\ RGe(call.override_weight, Zero) /\ RGe(One, call.override_weight)
           /\ call.base_weights[call.benchmark_ticker] = call.override_weight
           /\ KeepProportions
           /\ SumOver(call.base_weights, Others)
                 = (IF Others # {} THEN RSub(One, call.override_weight) ELSE Zero)
           /\ SumValues(call.base_weights)
                 = (IF Others # {} THEN One ELSE call.override_weight)

\* the route applied a weight that differs from the equal weight to a
\* portfolio with several other symbols
C25_Witness ==
    /\ Applied
    /\ call.op = "analysis"
    /\ Cardinality(Others) > 1
    /\ call.override_weight # call.before[call.benchmark_ticker]
    /\ \A t \in Others : call.base_weights[t] # call.before[t]

----------------------------------------------------------------------------
(* Properties of the cached frames                                         *)

\* the rows of the frame the cache c holds for the argument tuple key, in
\* the heap h; <<>> when it holds None or nothing
CachedRows(c, h, key) ==
    IF \E k \in 1..Len(c) : c[k].key = key /\ c[k].value # 0
    THEN h[(CHOOSE e \in {c[k] : k \in 1..Len(c)} : e.key = key).value]
    ELSE <<>>

\* C29: get_historical_data never modifies the cached table: whatever the
\* threads do, a frame held in the cache keeps the rows it had when it was
\* stored; a call that finds it starts from these rows, and a row with the
\* latest prices is appended to a copy, so that what is returned begins
\* with the rows of the cached frame.
C29_CachedFrameUnmodified ==
    [][ \A n \in ThreadKeys :
           /\ CachedRows(cache, heap, KeyOf(n)) # <<>>
                 => CachedRows(cache', heap', KeyOf(n))
                       = CachedRows(cache, heap, KeyOf(n))
           /\ \A t \in Threads :
                 (threads[t].pc = "idle" /\ threads'[t].pc = "fetched"
                     /\ threads'[t].key = n /\ threads'[t].df # 0)
                    => heap'[threads'[t].df] = CachedRows(cache, heap, KeyOf(n))
           /\ (call' # call /\ call'.hit /\ call'.key = KeyOf(n) /\ call'.returned # <<>>)
                 => SubSeq(call'.returned, 1, Len(CachedRows(cache, heap, KeyOf(n))))
                       = CachedRows(cache, heap, KeyOf(n)) ]_vars

\* a call that found the frame in the cache returned it with one more row,
\* the cached frame is as it was, and another thread is in a call with the
\* same arguments
C29_Witness ==
    /\ call.op = "get_historical_data"
    /\ call.hit
    /\ CachedRows(cache, heap, call.key) # <<>>
    /\ Len(call.returned) > Len(CachedRows(cache, heap, call.key))
    /\ \E t \in Threads : threads[t].pc = "patching" /\ KeyOf(threads[t].key) = call.key

====
